---- MODULE Spec2Model ----
(***************************************************************************)
(* Place resolution and linking engine of modules/utils/google_maps_lookup *)
(* (search_address, search_address_near, save_or_update_db and the two     *)
(* SQLite place tables), as a state machine.                               *)
(*                                                                         *)
(* Text is a sequence of one-character strings, so that normalize_keyword, *)
(* token_set, jaccard and difflib's SequenceMatcher ratio are computed as  *)
(* the code computes them.  An Optional value is <<>> (None) or <<v>>.     *)
(* Similarities and scores are Python floats, computed bit for bit.        *)
(***************************************************************************)
EXTENDS Integers, Sequences, FiniteSets, TLC

(***************************************************************************)
(* Characters                                                              *)
(***************************************************************************)
UpperChars == <<"A","B","C","D","E","F","G","H","I","J","K","L","M",
                "N","O","P","Q","R","S","T","U","V","W","X","Y","Z">>
LowerChars == <<"a","b","c","d","e","f","g","h","i","j","k","l","m",
                "n","o","p","q","r","s","t","u","v","w","x","y","z">>
DigitChars == <<"0","1","2","3","4","5","6","7","8","9">>
\* code-point order of the characters a normalized keyword can hold
KeptChars == <<" ">> \o DigitChars \o LowerChars

Range(f) == {f[i] : i \in DOMAIN f}

\* str.lower() on one character
lower(ch) ==
    IF \E i \in 1..Len(UpperChars) : UpperChars[i] = ch
    THEN LowerChars[CHOOSE i \in 1..Len(UpperChars) : UpperChars[i] = ch]
    ELSE ch

\* the class [0-9a-z] of the regular expression (no CJK character occurs in the inputs)
IsAlnum(ch) == ch \in Range(DigitChars) \cup Range(LowerChars)

CharRank(ch) == CHOOSE i \in 1..Len(KeptChars) : KeptChars[i] = ch

\* Python's str < str on normalized text
RECURSIVE StrLess(_, _)
StrLess(a, b) ==
    IF b = <<>> THEN FALSE
    ELSE IF a = <<>> THEN TRUE
    ELSE IF a[1] = b[1] THEN StrLess(Tail(a), Tail(b))
    ELSE CharRank(a[1]) < CharRank(b[1])

\* str.strip() for text whose only whitespace is the blank
RECURSIVE strip(_)
strip(s) ==
    IF s = <<>> THEN s
    ELSE IF s[1] = " " THEN strip(Tail(s))
    ELSE IF s[Len(s)] = " " THEN strip(SubSeq(s, 1, Len(s) - 1))
    ELSE s

\* re.sub(r"[^0-9a-z\u4e00-\u9fff]+", " ", s): each run of other characters becomes one blank
RECURSIVE SubNonAlnum(_)
SubNonAlnum(s) ==
    IF s = <<>> THEN <<>>
    ELSE IF IsAlnum(s[1]) THEN <<s[1]>> \o SubNonAlnum(Tail(s))
    ELSE IF Len(s) > 1 /\ ~IsAlnum(s[2]) THEN SubNonAlnum(Tail(s))
    ELSE <<" ">> \o SubNonAlnum(Tail(s))

normalize_keyword(s) ==
    strip(SubNonAlnum(strip([i \in 1..Len(s) |-> lower(s[i])])))

\* str.split() on blanks
RECURSIVE split(_)
split(s) ==
    LET t == strip(s) IN
    IF t = <<>> THEN <<>>
    ELSE LET n == IF \E i \in 1..Len(t) : t[i] = " "
                  THEN (CHOOSE i \in 1..Len(t) :
                           t[i] = " " /\ \A k \in 1..(i - 1) : t[k] # " ") - 1
                  ELSE Len(t)
         IN <<SubSeq(t, 1, n)>> \o split(SubSeq(t, n + 1, Len(t)))

\* " ".join(tokens)
RECURSIVE join(_)
join(ts) ==
    IF ts = <<>> THEN <<>>
    ELSE IF Len(ts) = 1 THEN ts[1]
    ELSE ts[1] \o <<" ">> \o join(Tail(ts))

STOPWORDS_BASE ==
    { <<"a","m","s","t","e","r","d","a","m">>,
      <<"h","o","t","e","l">>,
      <<"h","o","t","e","l","s">>,
      <<"t","h","e">>,
      <<"b","y">>,
      <<"h","o","s","t","e","l">>,
      <<"i","n","n">>,
      <<"a","p","a","r","t","m","e","n","t">>,
      <<"a","p","a","r","t","m","e","n","t","s">>,
      <<"r","e","s","i","d","e","n","c","e">>,
      <<"c","o","l","l","e","c","t","i","o","n">>,
      <<"c","i","t","y">>,
      <<"c","e","n","t","e","r">>,
      <<"c","e","n","t","r","e">>,
      <<"n","e","t","h","e","r","l","a","n","d","s">> }

CITY_FOR_QUERY_EN == <<"A","m","s","t","e","r","d","a","m">>

_stopwords ==
    STOPWORDS_BASE \cup
      (IF CITY_FOR_QUERY_EN # <<>>
       THEN {[i \in 1..Len(CITY_FOR_QUERY_EN) |-> lower(CITY_FOR_QUERY_EN[i])]}
       ELSE {})

RECURSIVE DropStopDedupe(_, _)
DropStopDedupe(tokens, seen) ==
    IF tokens = <<>> THEN <<>>
    ELSE IF tokens[1] \in _stopwords \/ tokens[1] \in seen
         THEN DropStopDedupe(Tail(tokens), seen)
         ELSE <<tokens[1]>> \o DropStopDedupe(Tail(tokens), seen \cup {tokens[1]})

token_set(s) == DropStopDedupe(split(normalize_keyword(s)), {})

\* a local variable: Body applied to the value assigned to it
With(v, Body(_)) == Body(v)

(***************************************************************************)
(* Python floats: IEEE 754 binary64, round to nearest, ties to even.       *)
(* A float is [neg, m, x]: the number m * 2^x (negated when neg), m a      *)
(* natural number of exactly 53 bits, or 0.  A natural number is the       *)
(* sequence of its digits in base 2^15, the lowest first, 0 being <<>>.    *)
(***************************************************************************)
LimbBits == 15
LimbBase == 2^LimbBits
MantissaBits == 53

RECURSIVE BigNorm(_)
BigNorm(a) ==
    IF a # <<>> /\ a[Len(a)] = 0 THEN BigNorm(SubSeq(a, 1, Len(a) - 1)) ELSE a

BigTail(a) == IF a = <<>> THEN <<>> ELSE Tail(a)
BigLow(a) == IF a = <<>> THEN 0 ELSE a[1]

RECURSIVE BigAddC(_, _, _)
BigAddC(a, b, c) ==
    IF a = <<>> /\ b = <<>> THEN (IF c = 0 THEN <<>> ELSE <<c>>)
    ELSE <<(BigLow(a) + BigLow(b) + c) % LimbBase>>
         \o BigAddC(BigTail(a), BigTail(b), (BigLow(a) + BigLow(b) + c) \div LimbBase)

BigAdd(a, b) == BigAddC(a, b, 0)

\* a - b for a >= b
RECURSIVE BigSubB(_, _, _)
BigSubB(a, b, borrow) ==
    IF a = <<>> THEN <<>>
    ELSE <<(a[1] - BigLow(b) - borrow + LimbBase) % LimbBase>>
         \o BigSubB(Tail(a), BigTail(b), IF a[1] - BigLow(b) - borrow < 0 THEN 1 ELSE 0)

BigSub(a, b) == BigNorm(BigSubB(a, b, 0))

\* a * m + c for a digit m
RECURSIVE BigMulSmallC(_, _, _)
BigMulSmallC(a, m, c) ==
    IF a = <<>> THEN (IF c = 0 THEN <<>> ELSE <<c>>)
    ELSE <<(a[1] * m + c) % LimbBase>> \o BigMulSmallC(Tail(a), m, (a[1] * m + c) \div LimbBase)

BigMulSmall(a, m) == IF m = 0 THEN <<>> ELSE BigMulSmallC(a, m, 0)

BigTimesBase(a) == IF a = <<>> THEN <<>> ELSE <<0>> \o a

RECURSIVE BigMul(_, _)
BigMul(a, b) ==
    IF a = <<>> \/ b = <<>> THEN <<>>
    ELSE BigAdd(BigMulSmall(a, b[1]), BigTimesBase(BigMul(a, Tail(b))))

\* quotient and remainder of a by d, 0 < d <= 2^15
RECURSIVE BigDivSmallR(_, _)
BigDivSmallR(a, d) ==
    IF a = <<>> THEN [q |-> <<>>, r |-> 0]
    ELSE With(BigDivSmallR(Tail(a), d), LAMBDA hi :
           [q |-> <<(hi.r * LimbBase + a[1]) \div d>> \o hi.q,
            r |-> (hi.r * LimbBase + a[1]) % d])

BigDivSmall(a, d) ==
    With(BigDivSmallR(a, d), LAMBDA qr : [q |-> BigNorm(qr.q), r |-> qr.r])

RECURSIVE BigLt(_, _)
BigLt(a, b) ==
    IF Len(a) # Len(b) THEN Len(a) < Len(b)
    ELSE IF a = <<>> THEN FALSE
    ELSE IF a[Len(a)] # b[Len(b)] THEN a[Len(a)] < b[Len(b)]
    ELSE BigLt(SubSeq(a, 1, Len(a) - 1), SubSeq(b, 1, Len(b) - 1))

RECURSIVE BitLength(_)
BitLength(n) == IF n = 0 THEN 0 ELSE 1 + BitLength(n \div 2)

BigBitLength(a) ==
    IF a = <<>> THEN 0 ELSE LimbBits * (Len(a) - 1) + BitLength(a[Len(a)])

\* a * 2^s and a \div 2^s
BigShl(a, s) ==
    IF a = <<>> THEN <<>>
    ELSE [i \in 1..(s \div LimbBits) |-> 0] \o BigMulSmall(a, 2^(s % LimbBits))

BigShr(a, s) ==
    IF s \div LimbBits >= Len(a) THEN <<>>
    ELSE BigDivSmall(SubSeq(a, (s \div LimbBits) + 1, Len(a)), 2^(s % LimbBits)).q

float_zero == [neg |-> FALSE, m |-> <<>>, x |-> 0]

\* the float nearest to n * 2^x, the one with the even mantissa of two nearest
RoundShifted(n, x, s) ==
    With(BigShr(n, s), LAMBDA q :
    With(BigSub(n, BigShl(q, s)), LAMBDA r :
    With(BigShl(<<1>>, s - 1), LAMBDA half :
    With(IF BigLt(half, r) \/ (r = half /\ q[1] % 2 = 1) THEN BigAdd(q, <<1>>) ELSE q,
         LAMBDA up :
      IF BigBitLength(up) > MantissaBits
      THEN [neg |-> FALSE, m |-> BigShr(up, 1), x |-> x + s + 1]
      ELSE [neg |-> FALSE, m |-> up, x |-> x + s]))))

float_round(n, x) ==
    IF n = <<>> THEN float_zero
    ELSE With(BigBitLength(n), LAMBDA len :
           IF len <= MantissaBits
           THEN [neg |-> FALSE, m |-> BigShl(n, MantissaBits - len),
                 x |-> x - (MantissaBits - len)]
           ELSE RoundShifted(n, x, len - MantissaBits))

\* a / b of two ints, 0 <= a < 2^15, 0 < b <= 2^15: 75 bits of the quotient and one
\* more bit that says whether anything is left
float_div(a, b) ==
    IF a = 0 THEN float_zero
    ELSE With(BigDivSmall(BigShl(<<a>>, 75), b), LAMBDA d :
           float_round(BigAdd(BigShl(d.q, 1), IF d.r = 0 THEN <<>> ELSE <<1>>), -76))

float_mul(a, b) == float_round(BigMul(a.m, b.m), a.x + b.x)

FloatMin(i, k) == IF i < k THEN i ELSE k

\* of two floats that are not negative
float_lt(a, b) ==
    IF b.m = <<>> THEN FALSE
    ELSE IF a.m = <<>> THEN TRUE
    ELSE IF a.x # b.x THEN a.x < b.x
    ELSE BigLt(a.m, b.m)

float_add(a, b) ==
    IF a.m = <<>> THEN b
    ELSE IF b.m = <<>> THEN a
    ELSE With(FloatMin(a.x, b.x), LAMBDA x :
           float_round(BigAdd(BigShl(a.m, a.x - x), BigShl(b.m, b.x - x)), x))

\* a - b of two floats that are not negative
float_sub(a, b) ==
    IF b.m = <<>> THEN a
    ELSE IF a.m = <<>> THEN [b EXCEPT !.neg = TRUE]
    ELSE With(FloatMin(a.x, b.x), LAMBDA x :
         With(BigShl(a.m, a.x - x), LAMBDA am :
         With(BigShl(b.m, b.x - x), LAMBDA bm :
           IF BigLt(am, bm)
           THEN [float_round(BigSub(bm, am), x) EXCEPT !.neg = TRUE]
           ELSE float_round(BigSub(am, bm), x))))

\* a >= b and a > b, b not negative
float_geq(a, b) == ~a.neg /\ ~float_lt(a, b)
float_gt(a, b) == ~a.neg /\ float_lt(b, a)

jaccard(a, b) ==
    LET sa == Range(a)
        sb == Range(b)
    IN IF sa # {} /\ sb # {}
       THEN float_div(Cardinality(sa \cap sb), Cardinality(sa \cup sb))
       ELSE float_zero

\* difflib.SequenceMatcher.find_longest_match without junk: the longest common
\* block, the earliest in a and then the earliest in b among the longest
find_longest_match(a, b) ==
    LET blocks == {m \in (1..Len(a)) \X (1..Len(b)) \X (1..Len(a)) :
                     /\ m[1] + m[3] - 1 <= Len(a)
                     /\ m[2] + m[3] - 1 <= Len(b)
                     /\ SubSeq(a, m[1], m[1] + m[3] - 1) = SubSeq(b, m[2], m[2] + m[3] - 1)}
    IN IF blocks = {} THEN <<1, 1, 0>>
       ELSE CHOOSE m \in blocks :
              \A o \in blocks :
                 \/ m[3] > o[3]
                 \/ m[3] = o[3] /\ m[1] < o[1]
                 \/ m[3] = o[3] /\ m[1] = o[1] /\ m[2] <= o[2]

\* the matched characters of get_matching_blocks
RECURSIVE matches(_, _)
matches(a, b) ==
    IF a = <<>> \/ b = <<>> THEN 0
    ELSE LET m == find_longest_match(a, b) IN
         IF m[3] = 0 THEN 0
         ELSE m[3]
              + matches(SubSeq(a, 1, m[1] - 1), SubSeq(b, 1, m[2] - 1))
              + matches(SubSeq(a, m[1] + m[3], Len(a)), SubSeq(b, m[2] + m[3], Len(b)))

\* SequenceMatcher(None, a, b).ratio(): 2*M/T, and 1.0 for two empty strings
ratio(a, b) ==
    IF Len(a) + Len(b) = 0 THEN float_div(1, 1)
    ELSE float_div(2 * matches(a, b), Len(a) + Len(b))

edit_sim(a, b) == ratio(join(token_set(a)), join(token_set(b)))

\* s = 0.6 * j + 0.4 * e
Score(j, e) == float_add(float_mul(float_div(6, 10), j), float_mul(float_div(4, 10), e))

(***************************************************************************)
(* The query texts of the model, and the text functions tabulated on them  *)
(* (every keyword a table can hold is the normal form of a query)          *)
(***************************************************************************)
Q_AbCd == <<"A","b"," ","C","d">>
Q_TheAbCd == <<"T","h","e"," ","A","b"," ","C","d">>
Q_abcde == <<"a","b"," ","c","d"," ","e">>
Q_Bang == <<"!","!">>
Q_The == <<"t","h","e">>
Q_Empty == <<>>
Q_Blank == <<" ">>

Queries == {Q_AbCd, Q_TheAbCd, Q_abcde, Q_Bang, Q_The, Q_Empty, Q_Blank}

\* a query whose place the provider may show without coordinates
Q_Cd == <<"C","d">>
CoordQueries == {Q_Cd}

\* Texts at the thresholds of the precise stage.  Against the query
\* "aa aaa aaaa aaab" the six orders of its words below have jaccard 1 and edit_sim
\* 15/16, 15/16, 14/16, 13/16 and 12/16: scores 0.975, 0.975, 0.95, 0.925 and 0.9
W_aa == <<"a","a">>
W_aaa == <<"a","a","a">>
W_aaaa == <<"a","a","a","a">>
W_aaab == <<"a","a","a","b">>
QP_Words == join(<<W_aa, W_aaa, W_aaaa, W_aaab>>)
KP_E15 == join(<<W_aa, W_aaab, W_aaaa, W_aaa>>)
KP_E15b == join(<<W_aaa, W_aa, W_aaaa, W_aaab>>)
KP_E14 == join(<<W_aa, W_aaa, W_aaab, W_aaaa>>)
KP_E13 == join(<<W_aaa, W_aaaa, W_aa, W_aaab>>)
KP_E12 == join(<<W_aa, W_aaaa, W_aaa, W_aaab>>)
\* a keyword that is its query and one more word: jaccard 4/5 and edit_sim 23/25,
\* jaccard 3/4 and edit_sim 12/13, jaccard 4/5 and edit_sim 4/5
Repeat(ch, n) == [i \in 1..n |-> ch]
QP_J80E92 == Repeat("b", 17) \o <<" ","c"," ","d"," ","e">>
KP_J80E92 == QP_J80E92 \o <<" ","f","f","f">>
QP_J75 == Repeat("b", 8) \o <<" ","c"," ","d">>
KP_J75 == QP_J75 \o <<" ","f">>
QP_E80 == <<"b","b"," ","c"," ","d"," ","e">>
KP_E80 == QP_E80 \o <<" ","f","f","f">>

PreciseQueries == {QP_Words, QP_J80E92, QP_J75, QP_E80}
PreciseKeywords == {KP_E15, KP_E15b, KP_E14, KP_E13, KP_E12, KP_J80E92, KP_J75, KP_E80}

Texts ==
    Queries \cup {normalize_keyword(q) : q \in Queries} \cup PreciseQueries \cup PreciseKeywords
    \cup CoordQueries \cup {normalize_keyword(q) : q \in CoordQueries}

NormTable == [t \in Texts |-> normalize_keyword(t)]
Norm(s) == NormTable[s]

\* (j, e, s) of a query and a keyword: jaccard, edit_sim and the score of the two
MetricTable ==
    [a \in Texts |-> [b \in Texts |->
        With(<<jaccard(token_set(a), token_set(b)), edit_sim(a, b)>>, LAMBDA je :
          <<je[1], je[2], Score(je[1], je[2])>>)]]
Metric(a, b) == MetricTable[a][b]

(***************************************************************************)
(* Optional values and Python truthiness                                   *)
(***************************************************************************)
None == <<>>
Some(v) == <<v>>
\* bool(x) of an Optional number: None and 0.0 are falsy
Truthy(x) == x # None /\ x[1] # 0
\* x or y
Or(x, y) == IF Truthy(x) THEN x ELSE y

\* A stable sort: the elements in ascending order of Lt, equal ones in their old order
StableSort(seq, Lt(_, _)) ==
    LET n == Len(seq)
        before(i) == {k \in 1..n : Lt(seq[k], seq[i]) \/ (~Lt(seq[i], seq[k]) /\ k < i)}
    IN [p \in 1..n |-> seq[CHOOSE i \in 1..n : Cardinality(before(i)) = p - 1]]

\* sorted(set(list)) of normalized strings
RECURSIVE SortStrings(_)
SortStrings(S) ==
    IF S = {} THEN <<>>
    ELSE LET m == CHOOSE a \in S : \A b \in S : a = b \/ StrLess(a, b)
         IN <<m>> \o SortStrings(S \ {m})

(***************************************************************************)
(* Addresses: a sequence of words and "," tokens (blanks are implicit)     *)
(***************************************************************************)
IsNetherlands(w) == w \in {"Netherlands", "netherlands", "NETHERLANDS"}
IsThe(w) == w \in {"The", "the", "THE"}

RECURSIVE rstrip_commas(_)
rstrip_commas(a) ==
    IF a # <<>> /\ a[Len(a)] = "," THEN rstrip_commas(SubSeq(a, 1, Len(a) - 1)) ELSE a

\* re.sub(r",?\s*(the\s+)?netherlands\s*$", "", addr, flags=re.I).strip().rstrip(",")
_clean_country_suffix(addr) ==
    IF addr = <<>> THEN <<>>
    ELSE IF ~IsNetherlands(addr[Len(addr)]) THEN rstrip_commas(addr)
    ELSE LET n1 == Len(addr) - 1
             n2 == IF n1 >= 1 /\ IsThe(addr[n1]) THEN n1 - 1 ELSE n1
             n3 == IF n2 >= 1 /\ addr[n2] = "," THEN n2 - 1 ELSE n2
         IN rstrip_commas(SubSeq(addr, 1, n3))

\* addr.split(","), the empty parts dropped
RECURSIVE comma_parts(_)
comma_parts(a) ==
    IF a = <<>> THEN <<>>
    ELSE LET n == IF \E i \in 1..Len(a) : a[i] = ","
                  THEN (CHOOSE i \in 1..Len(a) :
                           a[i] = "," /\ \A k \in 1..(i - 1) : a[k] # ",") - 1
                  ELSE Len(a)
             rest == comma_parts(SubSeq(a, n + 2, Len(a)))
         IN IF n = 0 THEN rest ELSE <<SubSeq(a, 1, n)>> \o rest

\* (street, city): the first part, and the last word of the last part
_split_address(addr) ==
    With(_clean_country_suffix(addr), LAMBDA a :
    With(comma_parts(a), LAMBDA parts :
      IF a = <<>> \/ parts = <<>> THEN <<<<>>, "">>
      ELSE With(parts[Len(parts)], LAMBDA last_part :
             <<parts[1], last_part[Len(last_part)]>>)))

(***************************************************************************)
(* The place tables.  A row is                                             *)
(*   [id, name, keywords, street, city, address, lat, lng, place_id, notes]*)
(* keywords is the ";"-joined column read back as the list of its          *)
(* non-blank entries; created_at / updated_at are left out.                *)
(***************************************************************************)
_table_name(db_kind) == IF db_kind = "hotels" THEN "hotels" ELSE "pickup_locations"
LINK_TABLE_DB == "pickup"
LinkTable == "hotel_pickup_links"

\* CREATE TABLE IF NOT EXISTS: the place table, and with it the link table of "pickup"
init_db(tbls, db_kind) ==
    tbls \cup {_table_name(db_kind)}
         \cup (IF db_kind = LINK_TABLE_DB THEN {LinkTable} ELSE {})

\* the keywords column holding the one text kw: "" reads back as no entry
KeywordsColumn(kw) == IF kw = <<>> THEN <<>> ELSE <<kw>>

\* [normalize_keyword(k) for k in col.split(";") if k.strip()]
kw_list(col) ==
    With(SelectSeq(col, LAMBDA k : strip(k) # <<>>), LAMBDA kept :
      [i \in 1..Len(kept) |-> Norm(kept[i])])

_merge_keywords(old, new) ==
    With(kw_list(old), LAMBDA old_list :
    With(Norm(new), LAMBDA new_norm :
      SortStrings(Range(IF new_norm # <<>> /\ new_norm \notin Range(old_list)
                        THEN old_list \o <<new_norm>> ELSE old_list))))

RowIndex(rows, P(_)) ==
    IF \E i \in 1..Len(rows) : P(rows[i])
    THEN CHOOSE i \in 1..Len(rows) : P(rows[i]) /\ \A k \in 1..(i - 1) : ~P(rows[k])
    ELSE 0

\* a hit that leaves the keywords column as it was
_append_keyword_to_id_skipped(rows, rec_id, new_kw) == rows

\* UPDATE ... SET keywords=? WHERE id=?, only when the merge changes the column
_append_keyword_to_id(rows, rec_id, new_kw) ==
    With(RowIndex(rows, LAMBDA r : r.id = rec_id), LAMBDA i :
      IF i = 0 THEN rows
      ELSE With(_merge_keywords(rows[i].keywords, new_kw), LAMBDA merged :
             IF merged # rows[i].keywords
             THEN [rows EXCEPT ![i].keywords = merged]
             ELSE rows))

\* the comparison made on the query as typed
find_in_db_exact_keywords_only_as_typed(query, rows) ==
    With(RowIndex(rows, LAMBDA r : query \in Range(kw_list(r.keywords))), LAMBDA i :
      IF i = 0 THEN None ELSE Some(rows[i]))

find_in_db_exact_keywords_only(query, rows) ==
    With(Norm(query), LAMBDA q :
    With(RowIndex(rows, LAMBDA r : q \in Range(kw_list(r.keywords))), LAMBDA i :
      IF i = 0 THEN None ELSE Some(rows[i])))

\* (best_score, best_j, best_e) over the record's keywords; the first maximum wins
RECURSIVE BestFrom(_, _, _)
BestFrom(query, kws, best) ==
    IF kws = <<>> THEN best
    ELSE With(Metric(query, kws[1]), LAMBDA jes :
           BestFrom(query, Tail(kws),
                    IF float_gt(jes[3], best[1]) THEN <<jes[3], jes[1], jes[2]>> ELSE best))

_best_kw_metrics(query, kw_text) ==
    LET kws == SelectSeq(kw_text, LAMBDA k : strip(k) # <<>>)
    IN BestFrom(query, kws, <<float_zero, float_zero, float_zero>>)

JACCARD_MIN == float_div(80, 100)
EDIT_SIM_MIN == float_div(92, 100)
TOP2_MARGIN_MIN == float_div(5, 100)

Scored(query, rows) ==
    [i \in 1..Len(rows) |->
        With(_best_kw_metrics(query, rows[i].keywords), LAMBDA m :
          [s |-> m[1], j |-> m[2], e |-> m[3], obj |-> rows[i]])]

\* the top record judged on its own metrics, whatever the second scores
find_best_in_db_precise_no_margin(query, rows) ==
    IF rows = <<>> THEN None
    ELSE With(StableSort(Scored(query, rows), LAMBDA a, b : float_gt(a.s, b.s)), LAMBDA scored :
         With(scored[1], LAMBDA top :
           IF /\ float_geq(top.j, JACCARD_MIN)
              /\ float_geq(top.e, EDIT_SIM_MIN)
           THEN Some(top.obj)
           ELSE None))

find_best_in_db_precise(query, rows) ==
    IF rows = <<>> THEN None
    ELSE With(StableSort(Scored(query, rows), LAMBDA a, b : float_gt(a.s, b.s)), LAMBDA scored :
         With(scored[1], LAMBDA top :
         With(IF Len(scored) > 1 THEN scored[2].s ELSE float_zero, LAMBDA second_score :
         With(float_sub(top.s, second_score), LAMBDA margin :
           IF /\ float_geq(top.j, JACCARD_MIN)
              /\ float_geq(top.e, EDIT_SIM_MIN)
              /\ float_geq(margin, TOP2_MARGIN_MIN)
           THEN Some(top.obj)
           ELSE None))))

\* cur.lastrowid of an AUTOINCREMENT table that never loses a row
NextId(rows) == Len(rows) + 1

\* an INSERT whatever the table holds
save_or_update_db_always_insert(rows, official_name, new_keyword, address, lat, lng, place_id, notes) ==
    With(_clean_country_suffix(address), LAMBDA addr :
    With(_split_address(addr), LAMBDA sc :
    With([id |-> NextId(rows), name |-> official_name,
          keywords |-> KeywordsColumn(Norm(new_keyword)),
          street |-> sc[1], city |-> sc[2], address |-> addr,
          lat |-> Or(lat, Some(0)), lng |-> Or(lng, Some(0)),
          place_id |-> place_id, notes |-> notes], LAMBDA new :
      [rows |-> Append(rows, new), ret |-> new])))

\* The merge by name; returns the table and the dict handed back
save_or_update_db(rows, official_name, new_keyword, address, lat, lng, place_id, notes) ==
    With(_clean_country_suffix(address), LAMBDA addr :
    With(_split_address(addr), LAMBDA sc :
    With(RowIndex(rows, LAMBDA r : r.name = official_name), LAMBDA i :
      IF i # 0
      THEN With(rows[i], LAMBDA old :
           With([id |-> old.id, name |-> old.name,
                 keywords |-> _merge_keywords(old.keywords, new_keyword),
                 street |-> sc[1], city |-> sc[2], address |-> addr,
                 lat |-> Or(lat, old.lat), lng |-> Or(lng, old.lng),
                 place_id |-> IF place_id # <<>> THEN place_id ELSE old.place_id,
                 notes |-> notes], LAMBDA upd :
             [rows |-> [rows EXCEPT ![i] = upd],
              ret |-> [upd EXCEPT !.name = official_name]]))
      ELSE With([id |-> NextId(rows), name |-> official_name,
                 keywords |-> KeywordsColumn(Norm(new_keyword)),
                 street |-> sc[1], city |-> sc[2], address |-> addr,
                 lat |-> Or(lat, Some(0)), lng |-> Or(lng, Some(0)),
                 place_id |-> place_id, notes |-> notes], LAMBDA new :
             [rows |-> Append(rows, new), ret |-> new]))))

\* save_or_update_db as the two statements it runs, each on a connection of its own.
\* The SELECT ... WHERE name=? and what the caller keeps of the row fetched:
\* rec_id, old_lat, old_lng, old_pid and merged_kw = _merge_keywords(old_kw, new_keyword)
NoRow == [found |-> FALSE, rec_id |-> 0, merged_kw |-> <<>>, old_lat |-> None,
          old_lng |-> None, old_pid |-> <<>>]
save_or_update_db_read(rows, official_name, new_keyword) ==
    With(RowIndex(rows, LAMBDA r : r.name = official_name), LAMBDA i :
      IF i = 0 THEN NoRow
      ELSE [found |-> TRUE, rec_id |-> rows[i].id,
            merged_kw |-> _merge_keywords(rows[i].keywords, new_keyword),
            old_lat |-> rows[i].lat, old_lng |-> rows[i].lng, old_pid |-> rows[i].place_id])

\* a write that reads the row again in its own transaction
save_or_update_db_write_atomic(rows, row, official_name, new_keyword, address, lat, lng, place_id, notes) ==
    save_or_update_db(rows, official_name, new_keyword, address, lat, lng, place_id, notes)

\* The UPDATE ... WHERE id=? with the values kept from the SELECT, or the INSERT, and
\* the commit
save_or_update_db_write(rows, row, official_name, new_keyword, address, lat, lng, place_id, notes) ==
    With(_clean_country_suffix(address), LAMBDA addr :
    With(_split_address(addr), LAMBDA sc :
      IF row.found
      THEN With([id |-> row.rec_id, name |-> official_name, keywords |-> row.merged_kw,
                 street |-> sc[1], city |-> sc[2], address |-> addr,
                 lat |-> Or(lat, row.old_lat), lng |-> Or(lng, row.old_lng),
                 place_id |-> IF place_id # <<>> THEN place_id ELSE row.old_pid,
                 notes |-> notes], LAMBDA upd :
           With(RowIndex(rows, LAMBDA r : r.id = row.rec_id), LAMBDA i :
             [rows |-> IF i = 0 THEN rows
                       ELSE [rows EXCEPT ![i] = [upd EXCEPT !.name = rows[i].name]],
              ret |-> upd]))
      ELSE With([id |-> NextId(rows), name |-> official_name,
                 keywords |-> KeywordsColumn(Norm(new_keyword)),
                 street |-> sc[1], city |-> sc[2], address |-> addr,
                 lat |-> Or(lat, Some(0)), lng |-> Or(lng, Some(0)),
                 place_id |-> place_id, notes |-> notes], LAMBDA new :
             [rows |-> Append(rows, new), ret |-> new])))

(***************************************************************************)
(* Distances.  Coordinates are whole degrees with 0 <= lat <= 3 and        *)
(* 0 <= lng <= 1; the haversine distance of two such points, in metres, is *)
(* tabulated from the formula (R = 6371000).                               *)
(***************************************************************************)
Inf == 999999999
Abs(n) == IF n < 0 THEN -n ELSE n
MetresPerDegree == 111195

\* one degree of longitude apart, by the two latitudes
HavOneDegreeEast ==
    [la \in (0..3) \X (0..3) |->
        CASE {la[1], la[2]} = {0}    -> 111195
          [] {la[1], la[2]} = {0, 1} -> 157249
          [] {la[1], la[2]} = {0, 2} -> 248629
          [] {la[1], la[2]} = {0, 3} -> 351613
          [] {la[1], la[2]} = {1}    -> 111178
          [] {la[1], la[2]} = {1, 2} -> 157225
          [] {la[1], la[2]} = {1, 3} -> 248607
          [] {la[1], la[2]} = {2}    -> 111127
          [] {la[1], la[2]} = {2, 3} -> 157178
          [] {la[1], la[2]} = {3}    -> 111043]

\* float("inf") when an argument is not a number
_haversine_m(lat1, lon1, lat2, lon2) ==
    IF None \in {lat1, lon1, lat2, lon2} THEN Inf
    ELSE IF lon1[1] = lon2[1] THEN MetresPerDegree * Abs(lat1[1] - lat2[1])
    ELSE HavOneDegreeEast[<<lat1[1], lat2[1]>>]

isfinite(d) == d < Inf

(***************************************************************************)
(* The external provider: what the map pages show.  A page is              *)
(*   [name, label, coords]: the place heading ("" when it cannot be read), *)
(* the address label, and the coordinates of the page URL (None or         *)
(* <<lat, lng>>).                                                          *)
(***************************************************************************)
_extract_place_name(page) == page.name

\* (addr, lat, lng)
_extract_address_and_coords(page) ==
    <<_clean_country_suffix(page.label),
      IF page.coords = None THEN None ELSE Some(page.coords[1]),
      IF page.coords = None THEN None ELSE Some(page.coords[2])>>

SqliteError == "sqlite3.Error"
WebDriverException == "WebDriverException"

\* The module-level browser handle: 0 is None, 1 a webdriver.Chrome.  init_driver
\* returns at once when a handle is held; launched tells whether webdriver.Chrome(...)
\* returned a new browser
init_driver_unguarded(driver, fault) ==
    IF fault = "open" THEN [driver |-> driver, launched |-> FALSE, exc |-> WebDriverException]
    ELSE [driver |-> 1, launched |-> TRUE, exc |-> ""]

init_driver(driver, fault) ==
    IF driver # 0 THEN [driver |-> driver, launched |-> FALSE, exc |-> ""]
    ELSE IF fault = "open"
         THEN [driver |-> 0, launched |-> FALSE, exc |-> WebDriverException]
         ELSE [driver |-> 1, launched |-> TRUE, exc |-> ""]

\* quit_driver: driver.quit() is called on the handle held, whatever it raises is
\* swallowed, and the handle is dropped; quitted tells whether quit() was called
quit_driver(driver, outcome) ==
    IF driver # 0 THEN [driver |-> 0, quitted |-> TRUE, exc |-> ""]
    ELSE [driver |-> 0, quitted |-> FALSE, exc |-> ""]

\* browsers = [opened, live]: the browsers launched so far and those among them on
\* which quit() has not been called
Launch(browsers, before, after) ==
    IF before = 0 /\ after # 0
    THEN [opened |-> browsers.opened + 1, live |-> browsers.live + 1]
    ELSE browsers

\* The arguments of a save_or_update_db call, kept as part of what a call reports
UpsertArgs(name, keyword, address, lat, lng, notes) ==
    [name |-> name, keyword |-> keyword, address |-> address, lat |-> lat, lng |-> lng,
     notes |-> notes]

\* what a call hands back: the table, the value returned (None or <<dict>>), the
\* exception that escaped ("" when none), the browser handle, the stages consulted
\* and the save_or_update_db call it made (None or <<arguments>>)
Out(rows, ret, exc, drv, stages, upsert) ==
    [rows |-> rows, ret |-> ret, exc |-> exc, driver |-> drv, stages |-> stages,
     upsert |-> upsert, init_db |-> FALSE]

\* the call went past its init_db(...): the tables of the database exist from then on
InitDbDone(o) == [o EXCEPT !.init_db = TRUE]

\* env = [fault, page]: the step that fails in this call ("none" when none does) and
\* the place page the search lands on.  driver is 0 (None) or 1 (a live browser).
search_address_eager(query, rows, driver, env) ==
    IF query = <<>> THEN Out(rows, None, "", driver, <<>>, None)
    ELSE InitDbDone(
    With(_extract_place_name(env.page), LAMBDA official_name :
    With(_extract_address_and_coords(env.page), LAMBDA ac :
    With(IF official_name # <<>> THEN official_name ELSE query, LAMBDA name :
    With(save_or_update_db(rows, name, query, ac[1], ac[2], ac[3], <<>>, <<>>), LAMBDA saved :
      Out(saved.rows, Some(saved.ret), "", 1, <<"exact", "precise", "provider">>,
          Some(UpsertArgs(name, query, ac[1], ac[2], ac[3], <<>>))))))))

search_address(query, rows, driver, env) ==
    IF query = <<>> THEN Out(rows, None, "", driver, <<>>, None)
    ELSE IF env.fault = "init_db" THEN Out(rows, None, SqliteError, driver, <<>>, None)
    ELSE InitDbDone(
    IF env.fault = "select" THEN Out(rows, None, SqliteError, driver, <<"exact">>, None)
    ELSE
    With(find_in_db_exact_keywords_only(query, rows), LAMBDA exact :
    With(IF exact # None THEN exact ELSE find_best_in_db_precise(query, rows), LAMBDA local :
    With(IF exact # None THEN <<"exact">> ELSE <<"exact", "precise">>, LAMBDA stages :
      IF local # None
      THEN IF local[1].id # 0
           THEN IF env.fault = "append"
                THEN Out(rows, None, SqliteError, driver, stages, None)
                ELSE Out(_append_keyword_to_id(rows, local[1].id, query), local, "",
                         driver, stages, None)
           ELSE Out(rows, local, "", driver, stages, None)
      ELSE
      With(stages \o <<"provider">>, LAMBDA st :
        \* init_driver() and driver.get() run before the try block
        IF driver = 0 /\ env.fault = "open"
        THEN Out(rows, None, WebDriverException, 0, st, None)
        ELSE IF env.fault = "load" THEN Out(rows, None, WebDriverException, 1, st, None)
        \* inside the try block every exception is caught and None returned
        ELSE IF env.fault \in {"searchbox", "results"} THEN Out(rows, None, "", 1, st, None)
        \* a result list whose first place cannot be opened
        ELSE IF env.fault = "nofirst" THEN Out(rows, None, "", 1, st, None)
        ELSE
        With(_extract_place_name(env.page), LAMBDA official_name :
        With(_extract_address_and_coords(env.page), LAMBDA ac :
        With(IF official_name # <<>> THEN official_name ELSE query, LAMBDA name :
        With(Some(UpsertArgs(name, query, ac[1], ac[2], ac[3], <<>>)), LAMBDA args :
          \* save_or_update_db is called inside the try block too
          IF env.fault = "save" THEN Out(rows, None, "", 1, st, args)
          ELSE With(save_or_update_db(rows, name, query, ac[1], ac[2], ac[3], <<>>, <<>>),
                    LAMBDA saved : Out(saved.rows, Some(saved.ret), "", 1, st, args)))))))))))

TOPK == 6

\* the candidates scraped: [name, address, lat, lng] of each page that shows a name
\* or an address, at most topk of them
_collect_search_results_topk(query, pages, topk) ==
    With(SubSeq(pages, 1, IF Len(pages) < topk THEN Len(pages) ELSE topk), LAMBDA first :
    With(SelectSeq(first, LAMBDA pg :
           _extract_place_name(pg) # <<>> \/ _extract_address_and_coords(pg)[1] # <<>>),
         LAMBDA shown :
      [i \in 1..Len(shown) |->
          With(_extract_place_name(shown[i]), LAMBDA nm :
          With(_extract_address_and_coords(shown[i]), LAMBDA ac :
            [name |-> IF nm # <<>> THEN nm ELSE query,
             address |-> ac[1], lat |-> ac[2], lng |-> ac[3]]))]))

NEAR_SCORE_MIN == float_div(55, 100)
NEAR_JACCARD_MIN == float_div(50, 100)
NEAR_EDIT_SIM_MIN == float_div(75, 100)

\* the relaxed bar: s >= 0.55 or (j >= 0.50 and e >= 0.75)
Admitted(m) ==
    \/ float_geq(m[1], NEAR_SCORE_MIN)
    \/ float_geq(m[2], NEAR_JACCARD_MIN) /\ float_geq(m[3], NEAR_EDIT_SIM_MIN)

\* the rows that pass the bar, as (dist, s, obj), in table order
Pool(query, near_lat, near_lng, rows) ==
    With(SelectSeq([i \in 1..Len(rows) |-> i],
                   LAMBDA i : Admitted(_best_kw_metrics(query, rows[i].keywords))),
         LAMBDA idx :
      [k \in 1..Len(idx) |->
          With(rows[idx[k]], LAMBDA obj :
            [dist |-> _haversine_m(near_lat, near_lng, obj.lat, obj.lng),
             s |-> _best_kw_metrics(query, obj.keywords)[1],
             obj |-> obj])])

\* pool.sort(key=lambda x: (x[0], -x[1]))
PoolBefore_by_score(a, b) == float_gt(a.s, b.s) \/ (a.s = b.s /\ a.dist < b.dist)
PoolBefore(a, b) == a.dist < b.dist \/ (a.dist = b.dist /\ float_gt(a.s, b.s))

SortPool(pool) == StableSort(pool, PoolBefore)

\* search_address_near whose early return tests only for the empty text
search_address_near_unstripped(query, near_lat, near_lng, rows, driver, env) ==
    IF query = <<>> THEN Out(rows, None, "", driver, <<>>, None)
    ELSE InitDbDone(Out(rows, None, "", 1, <<"provider">>, None))

\* search_address_near that takes the first candidate with coordinates, unsorted
search_address_near_first_candidate(query, near_lat, near_lng, rows, driver, env) ==
    IF strip(query) = <<>> THEN Out(rows, None, "", driver, <<>>, None)
    ELSE IF env.fault = "init_db" THEN Out(rows, None, SqliteError, driver, <<>>, None)
    ELSE InitDbDone(
    IF env.fault = "select" THEN Out(rows, None, SqliteError, driver, <<>>, None)
    ELSE
    With(SortPool(Pool(query, near_lat, near_lng, rows)), LAMBDA pool :
      IF pool # <<>> /\ isfinite(pool[1].dist)
      THEN With(pool[1].obj, LAMBDA best :
             IF best.id # 0
             THEN IF env.fault = "append"
                  THEN Out(rows, None, SqliteError, driver, <<"local">>, None)
                  ELSE Out(_append_keyword_to_id(rows, best.id, query), Some(best), "",
                           driver, <<"local">>, None)
             ELSE Out(rows, Some(best), "", driver, <<"local">>, None))
      ELSE
      With(<<"local", "provider">>, LAMBDA st :
        IF driver = 0 /\ env.fault = "open"
        THEN Out(rows, None, WebDriverException, 0, st, None)
        \* no try block around the scraping: every failure of it escapes
        ELSE IF env.fault \in {"load", "searchbox", "results", "candidate"}
             THEN Out(rows, None, WebDriverException, 1, st, None)
        ELSE
        With(_collect_search_results_topk(query, env.pages, TOPK), LAMBDA cands :
          IF cands = <<>> THEN Out(rows, None, "", 1, st, None)
          ELSE
          With([i \in 1..Len(cands) |->
                  [c |-> cands[i],
                   distance_m |-> _haversine_m(near_lat, near_lng,
                                               cands[i].lat, cands[i].lng)]], LAMBDA withd :
          With(SelectSeq(withd, LAMBDA c : isfinite(c.distance_m)), LAMBDA finite :
          \* the list tested is the filtered one, so the fallback is always the bare query
          With(IF finite = <<>>
               THEN [name |-> query, address |-> <<>>, lat |-> None, lng |-> None]
               ELSE finite[1].c,
               LAMBDA chosen :
          With(IF chosen.name # <<>> THEN chosen.name ELSE query, LAMBDA name :
          With(<<"nearest to", near_lat, near_lng>>, LAMBDA notes :
          With(Some(UpsertArgs(name, query, chosen.address, chosen.lat, chosen.lng, notes)),
               LAMBDA args :
            IF env.fault = "save" THEN Out(rows, None, SqliteError, 1, st, args)
            ELSE With(save_or_update_db(rows, name, query, chosen.address, chosen.lat,
                                        chosen.lng, <<>>, notes),
                      LAMBDA saved :
                        Out(saved.rows, Some(saved.ret), "", 1, st, args))))))))))))

\* env = [fault, pages]; near_lat, near_lng are Optional numbers
search_address_near(query, near_lat, near_lng, rows, driver, env) ==
    IF strip(query) = <<>> THEN Out(rows, None, "", driver, <<>>, None)
    ELSE IF env.fault = "init_db" THEN Out(rows, None, SqliteError, driver, <<>>, None)
    ELSE InitDbDone(
    IF env.fault = "select" THEN Out(rows, None, SqliteError, driver, <<>>, None)
    ELSE
    With(SortPool(Pool(query, near_lat, near_lng, rows)), LAMBDA pool :
      IF pool # <<>> /\ isfinite(pool[1].dist)
      THEN With(pool[1].obj, LAMBDA best :
             IF best.id # 0
             THEN IF env.fault = "append"
                  THEN Out(rows, None, SqliteError, driver, <<"local">>, None)
                  ELSE Out(_append_keyword_to_id(rows, best.id, query), Some(best), "",
                           driver, <<"local">>, None)
             ELSE Out(rows, Some(best), "", driver, <<"local">>, None))
      ELSE
      With(<<"local", "provider">>, LAMBDA st :
        IF driver = 0 /\ env.fault = "open"
        THEN Out(rows, None, WebDriverException, 0, st, None)
        \* no try block around the scraping: every failure of it escapes
        ELSE IF env.fault \in {"load", "searchbox", "results", "candidate"}
             THEN Out(rows, None, WebDriverException, 1, st, None)
        ELSE
        With(_collect_search_results_topk(query, env.pages, TOPK), LAMBDA cands :
          IF cands = <<>> THEN Out(rows, None, "", 1, st, None)
          ELSE
          With([i \in 1..Len(cands) |->
                  [c |-> cands[i],
                   distance_m |-> _haversine_m(near_lat, near_lng,
                                               cands[i].lat, cands[i].lng)]], LAMBDA withd :
          With(SelectSeq(withd, LAMBDA c : isfinite(c.distance_m)), LAMBDA finite :
          \* the list tested is the filtered one, so the fallback is always the bare query
          With(IF finite = <<>>
               THEN [name |-> query, address |-> <<>>, lat |-> None, lng |-> None]
               ELSE StableSort(finite, LAMBDA a, b : a.distance_m < b.distance_m)[1].c,
               LAMBDA chosen :
          With(IF chosen.name # <<>> THEN chosen.name ELSE query, LAMBDA name :
          With(<<"nearest to", near_lat, near_lng>>, LAMBDA notes :
          With(Some(UpsertArgs(name, query, chosen.address, chosen.lat, chosen.lng, notes)),
               LAMBDA args :
            IF env.fault = "save" THEN Out(rows, None, SqliteError, 1, st, args)
            ELSE With(save_or_update_db(rows, name, query, chosen.address, chosen.lat,
                                        chosen.lng, <<>>, notes),
                      LAMBDA saved :
                        Out(saved.rows, Some(saved.ret), "", 1, st, args))))))))))))

(***************************************************************************)
(* Linking.  A link row is                                                 *)
(*   [id, hotel_id, hotel_name, pickup_id, pickup_name, priority, notes]   *)
(***************************************************************************)
Tag(kind, stages) == [i \in 1..Len(stages) |-> <<kind, stages[i]>>]

\* a side that goes to search_address after a local miss whatever create_if_missing says
LinkSide_always_resolve(kind, query, rows, driver, create_if_missing, env) ==
    With(find_in_db_exact_keywords_only(query, rows), LAMBDA exact :
    With(IF exact # None THEN exact ELSE find_best_in_db_precise(query, rows), LAMBDA local :
    With(IF exact # None THEN <<"exact">> ELSE <<"exact", "precise">>, LAMBDA stages :
      IF local = None
      THEN With(search_address(query, rows, driver, env), LAMBDA o :
             [o EXCEPT !.stages = Tag(kind, stages \o o.stages)])
      ELSE Out(rows, local, "", driver, Tag(kind, stages), None))))

\* one side of a link: the local stages, then search_address when create_if_missing
LinkSide(kind, query, rows, driver, create_if_missing, env) ==
    With(find_in_db_exact_keywords_only(query, rows), LAMBDA exact :
    With(IF exact # None THEN exact ELSE find_best_in_db_precise(query, rows), LAMBDA local :
    With(IF exact # None THEN <<"exact">> ELSE <<"exact", "precise">>, LAMBDA stages :
      IF local = None /\ create_if_missing
      THEN With(search_address(query, rows, driver, env), LAMBDA o :
             [o EXCEPT !.stages = Tag(kind, stages \o o.stages)])
      ELSE Out(rows, local, "", driver, Tag(kind, stages), None))))

LinkOut(hotels, pickup, links, link_seq, ret, exc, drv, stages) ==
    [hotels |-> hotels, pickup |-> pickup, links |-> links, link_seq |-> link_seq,
     ret |-> ret, exc |-> exc, driver |-> drv, stages |-> stages, init_db |-> FALSE,
     h |-> None, p |-> None]

\* the call got as far as "if not (h and p)", with these values of h and p
Sides(o, h, p) == [o EXCEPT !.h = h, !.p = p]

\* a statement that INSERTs whether or not the pair is already linked
WriteLink_always_insert(hd, pd, priority, notes, links, link_seq) ==
    [links |-> Append(links, [id |-> link_seq + 1, hotel_id |-> hd.id,
                              hotel_name |-> hd.name, pickup_id |-> pd.id,
                              pickup_name |-> pd.name, priority |-> priority,
                              notes |-> notes]),
     link_seq |-> link_seq + 1, link_id |-> link_seq + 1]

\* a statement that replaces the link rows of the hotel by the new one
WriteLink_replace(hd, pd, priority, notes, links, link_seq) ==
    [links |-> SelectSeq(links, LAMBDA l : l.hotel_id # hd.id)
               \o <<[id |-> link_seq + 1, hotel_id |-> hd.id, hotel_name |-> hd.name,
                     pickup_id |-> pd.id, pickup_name |-> pd.name, priority |-> priority,
                     notes |-> notes]>>,
     link_seq |-> link_seq + 1, link_id |-> link_seq + 1]

\* SELECT id ... WHERE hotel_id=? AND pickup_id=?, then UPDATE of that row or INSERT
WriteLink(hd, pd, priority, notes, links, link_seq) ==
    With(RowIndex(links, LAMBDA l : l.hotel_id = hd.id /\ l.pickup_id = pd.id), LAMBDA i :
    With(IF i # 0 THEN links[i].id ELSE link_seq + 1, LAMBDA link_id :
    With([id |-> link_id, hotel_id |-> hd.id, hotel_name |-> hd.name,
          pickup_id |-> pd.id, pickup_name |-> pd.name,
          priority |-> priority, notes |-> notes], LAMBDA row :
      IF i # 0
      THEN [links |-> [links EXCEPT ![i] = row], link_seq |-> link_seq, link_id |-> link_id]
      ELSE [links |-> Append(links, row), link_seq |-> link_seq + 1,
            link_id |-> link_id])))

\* a link that is written for the hotel alone when the pickup did not resolve
link_hotel_to_pickup_partial(hotel_query, pickup_query, priority, notes, create_if_missing, hotels, pickup, links, link_seq, driver, env) ==
    InitDbDone(
    With(LinkSide("hotels", hotel_query, hotels, driver, create_if_missing, env.h), LAMBDA h :
    With(LinkSide("pickup", pickup_query, pickup, h.driver, create_if_missing, env.p),
         LAMBDA p :
      Sides(
      IF h.ret = None
      THEN LinkOut(h.rows, p.rows, links, link_seq, None, "", p.driver, h.stages \o p.stages)
      ELSE
      With(IF p.ret = None THEN [id |-> 0, name |-> <<>>] ELSE p.ret[1], LAMBDA pd :
      With(WriteLink(h.ret[1], pd, priority, notes, links, link_seq), LAMBDA w :
        LinkOut(h.rows, p.rows, w.links, w.link_seq,
                IF p.ret = None THEN None
                ELSE Some([link_id |-> w.link_id, hotel |-> h.ret[1], pickup |-> pd,
                           priority |-> priority, notes |-> notes]),
                "", p.driver, h.stages \o p.stages))), h.ret, p.ret))))

\* env = [fault, h, p]: h and p are the environments of the two search_address calls
link_hotel_to_pickup(hotel_query, pickup_query, priority, notes, create_if_missing, hotels, pickup, links, link_seq, driver, env) ==
    IF env.fault = "init_db"
    THEN LinkOut(hotels, pickup, links, link_seq, None, SqliteError, driver, <<>>)
    ELSE InitDbDone(
    With(LinkSide("hotels", hotel_query, hotels, driver, create_if_missing, env.h), LAMBDA h :
      IF h.exc # ""
      THEN LinkOut(h.rows, pickup, links, link_seq, None, h.exc, h.driver, h.stages)
      ELSE
      With(LinkSide("pickup", pickup_query, pickup, h.driver, create_if_missing, env.p),
           LAMBDA p :
      With(h.stages \o p.stages, LAMBDA st :
        IF p.exc # ""
        THEN LinkOut(h.rows, p.rows, links, link_seq, None, p.exc, p.driver, st)
        ELSE Sides(
        IF h.ret = None \/ p.ret = None
        THEN LinkOut(h.rows, p.rows, links, link_seq, None, "", p.driver, st)
        ELSE IF env.fault = "link_write"
        THEN LinkOut(h.rows, p.rows, links, link_seq, None, SqliteError, p.driver, st)
        ELSE
        With(WriteLink(h.ret[1], p.ret[1], priority, notes, links, link_seq), LAMBDA w :
          LinkOut(h.rows, p.rows, w.links, w.link_seq,
                  Some([link_id |-> w.link_id, hotel |-> h.ret[1], pickup |-> p.ret[1],
                        priority |-> priority, notes |-> notes]),
                  "", p.driver, st)), h.ret, p.ret)))))

(***************************************************************************)
(* Reading and removing links.  A hotel / pickup argument is Union[int,    *)
(* str]: an id (tag "int") or a text (tag "str").                          *)
(***************************************************************************)
OperationalError == "sqlite3.OperationalError"
IntArg(n) == [tag |-> "int", id |-> n, text |-> <<>>]
StrArg(t) == [tag |-> "str", id |-> 0, text |-> t]
isinstance_int(arg) == arg.tag = "int"

\* find_in_db_exact_keywords_only(q, kind) or find_best_in_db_precise(q, kind)
LocalStages(query, rows) ==
    With(find_in_db_exact_keywords_only(query, rows), LAMBDA exact :
      IF exact # None THEN exact ELSE find_best_in_db_precise(query, rows))

\* the record an argument of get_pickups_for_hotel / get_hotels_for_pickup stands for:
\* SELECT ... WHERE id=? for an int, the local stages for a text; either statement
\* fails when the table was never created
LookupSide(arg, kind, rows, tbls) ==
    IF _table_name(kind) \notin tbls THEN [rec |-> None, exc |-> OperationalError]
    ELSE IF isinstance_int(arg)
    THEN With(RowIndex(rows, LAMBDA r : r.id = arg.id), LAMBDA i :
           [rec |-> IF i = 0 THEN None ELSE Some(rows[i]), exc |-> ""])
    ELSE [rec |-> LocalStages(arg.text, rows), exc |-> ""]

\* ORDER BY id ASC alone
LinkBefore_by_id(a, b) == a.id < b.id

\* ORDER BY priority ASC, id ASC
LinkBefore(a, b) == a.priority < b.priority \/ (a.priority = b.priority /\ a.id < b.id)

\* the loop over the selected link rows: the records at the other end that exist, each
\* with the priority and the notes of its link
LinkedRecords(sel, other_id, other_rows) ==
    With(SelectSeq(sel, LAMBDA l : RowIndex(other_rows, LAMBDA r : r.id = l[other_id]) # 0),
         LAMBDA found :
      [n \in 1..Len(found) |->
         [obj |-> other_rows[RowIndex(other_rows, LAMBDA r : r.id = found[n][other_id])],
          priority |-> found[n].priority,
          notes_link |-> found[n].notes]])

\* if top_n and count >= top_n: break
TopN(results, top_n) ==
    IF top_n = None \/ top_n[1] = 0 \/ results = <<>> THEN results
    ELSE IF top_n[1] < 1 THEN SubSeq(results, 1, 1)
    ELSE IF Len(results) > top_n[1] THEN SubSeq(results, 1, top_n[1])
    ELSE results

ReadOut(ret, exc) == [ret |-> ret, exc |-> exc]

get_pickups_for_hotel(hotel, top_n, tbls, hotels, pickup, lnks) ==
    With(LookupSide(hotel, "hotels", hotels, tbls), LAMBDA h :
      IF h.exc # "" THEN ReadOut(<<>>, h.exc)
      ELSE IF h.rec = None THEN ReadOut(<<>>, "")
      ELSE IF LinkTable \notin tbls THEN ReadOut(<<>>, OperationalError)
      ELSE With(StableSort(SelectSeq(lnks, LAMBDA l : l.hotel_id = h.rec[1].id), LinkBefore),
                LAMBDA sel :
             IF sel = <<>> THEN ReadOut(<<>>, "")
             ELSE IF _table_name("pickup") \notin tbls THEN ReadOut(<<>>, OperationalError)
             ELSE ReadOut(TopN(LinkedRecords(sel, "pickup_id", pickup), top_n), "")))

get_hotels_for_pickup(pickup_arg, tbls, hotels, pickup, lnks) ==
    With(LookupSide(pickup_arg, "pickup", pickup, tbls), LAMBDA p :
      IF p.exc # "" THEN ReadOut(<<>>, p.exc)
      ELSE IF p.rec = None THEN ReadOut(<<>>, "")
      ELSE IF LinkTable \notin tbls THEN ReadOut(<<>>, OperationalError)
      ELSE With(StableSort(SelectSeq(lnks, LAMBDA l : l.pickup_id = p.rec[1].id), LinkBefore),
                LAMBDA sel :
             IF sel = <<>> THEN ReadOut(<<>>, "")
             ELSE IF _table_name("hotels") \notin tbls THEN ReadOut(<<>>, OperationalError)
             ELSE ReadOut(LinkedRecords(sel, "hotel_id", hotels), "")))

\* the id an argument of unlink_hotel_pickup stands for: an int is taken as it is
UnlinkSide(arg, kind, rows, tbls) ==
    IF isinstance_int(arg) THEN [id |-> Some(arg.id), exc |-> ""]
    ELSE IF _table_name(kind) \notin tbls THEN [id |-> None, exc |-> OperationalError]
    ELSE With(LocalStages(arg.text, rows), LAMBDA r :
           [id |-> IF r = None THEN None ELSE Some(r[1].id), exc |-> ""])

UnlinkOut(lnks, ret, exc) == [links |-> lnks, ret |-> ret, exc |-> exc]

\* DELETE FROM hotel_pickup_links WHERE hotel_id=? AND pickup_id=?; returns c.rowcount
unlink_hotel_pickup(hotel, pickup_arg, tbls, hotels, pickup, lnks) ==
    With(UnlinkSide(hotel, "hotels", hotels, tbls), LAMBDA h :
      IF h.exc # "" THEN UnlinkOut(lnks, 0, h.exc)
      ELSE IF h.id = None THEN UnlinkOut(lnks, 0, "")
      ELSE
      With(UnlinkSide(pickup_arg, "pickup", pickup, tbls), LAMBDA p :
        IF p.exc # "" THEN UnlinkOut(lnks, 0, p.exc)
        ELSE IF p.id = None THEN UnlinkOut(lnks, 0, "")
        ELSE IF LinkTable \notin tbls THEN UnlinkOut(lnks, 0, OperationalError)
        ELSE
        With(SelectSeq(lnks, LAMBDA l : ~(l.hotel_id = h.id[1] /\ l.pickup_id = p.id[1])),
             LAMBDA kept :
          UnlinkOut(kept, Len(lnks) - Len(kept), ""))))

(***************************************************************************)
(* Inputs                                                                  *)
(***************************************************************************)
Collections == {"hotels", "pickup"}

N1 == <<"N","1">>
N2 == <<"N","2">>

PageN1 == [name |-> N1,
           label |-> <<"Herengracht", "255", ",", "Amsterdam", ",", "Netherlands">>,
           coords |-> <<1, 1>>]
\* the same place with neither address nor coordinates readable
PageN1Bare == [name |-> N1, label |-> <<>>, coords |-> None]
PageN2 == [name |-> N2, label |-> <<"Dam", "1", ",", "1012", "Amsterdam">>,
           coords |-> <<3, 1>>]
\* a place whose page shows a name and an address and no coordinates
N3 == <<"N","3">>
PageN3Bare == [name |-> N3, label |-> <<"Dam", "9", ",", "Amsterdam">>, coords |-> None]
\* nothing readable on the page
PageBlank == [name |-> <<>>, label |-> <<>>, coords |-> None]

\* the stub provider: the place pages a search for the query may land on
Shown(query) ==
    CASE query = Q_AbCd    -> {PageN1}
      [] query = Q_TheAbCd -> {PageN1}
      [] query = Q_abcde   -> {PageN2}
      [] query = Q_Bang    -> {PageN1Bare, PageBlank}
      [] query = Q_The     -> {PageN2}
      [] query \in PreciseQueries -> {PageN1, PageBlank}
      [] query = Q_Cd      -> {PageN3Bare, PageN2, PageBlank}
      [] OTHER             -> {PageBlank}

\* and the result lists it may show
ShownLists(query) ==
    CASE query = Q_AbCd    -> {<<PageN1>>, <<PageN2, PageN1>>}
      [] query = Q_TheAbCd -> {<<PageN1>>}
      [] query = Q_abcde   -> {<<PageN2>>}
      [] query = Q_Bang    -> {<<>>, <<PageBlank, PageN1Bare>>}
      [] query = Q_Cd      -> {<<>>, <<PageBlank>>, <<PageN3Bare, PageN1Bare>>,
                               <<PageN3Bare, PageN2, PageN1>>}
      [] OTHER             -> {<<>>}

NearQueries == {Q_AbCd, Q_TheAbCd, Q_abcde, Q_Bang, Q_Blank, Q_Empty}
NearKinds == {"pickup"}
NearPoints == {<<1, 1>>, <<2, 1>>}
LinkHotelQueries == {Q_AbCd}
LinkPickupQueries == {Q_AbCd, Q_abcde}
\* (priority, notes)
LinkLabels == {<<1, <<>>>>, <<2, <<"n">>>>}

\* the arguments of the link operations: two places, by text or by id, a text that
\* resolves nowhere and ids that no record has until a second place is stored
LinkBothQueries == {Q_AbCd, Q_abcde}
LinkResolveQueries == {Q_AbCd}
LinkArgs == {IntArg(1), IntArg(2), StrArg(Q_AbCd), StrArg(Q_Bang)}
TopNs == {None, Some(1)}

MaxCalls == 3
MaxFaultCalls == 2
MaxLinkCalls == 4
MaxPreciseRows == 2
MaxPreciseCalls == 1
MaxCoordCalls == 3

\* the stores the precise stage is applied to: up to MaxPreciseRows keywords saved, each
\* under a name of its own (a record per keyword) or all under one name (one record
\* holding them all)
P1 == <<"P","1">>
P2 == <<"P","2">>
P3 == <<"P","3">>
PreciseNames == <<P1, P2, P3>>
PreciseNamings == {PreciseNames, <<P1, P1, P1>>}

RECURSIVE PreciseTable(_, _)
PreciseTable(kws, names) ==
    IF kws = <<>> THEN <<>>
    ELSE With(_extract_address_and_coords(PageN2), LAMBDA ac :
           save_or_update_db(PreciseTable(SubSeq(kws, 1, Len(kws) - 1), names),
                             names[Len(kws)], kws[Len(kws)],
                             ac[1], ac[2], ac[3], <<>>, <<>>).rows)

PreciseKeywordLists ==
    UNION {{kws \in [1..n -> PreciseKeywords] : \A i, k \in 1..n : kws[i] = kws[k] => i = k}
             : n \in 1..MaxPreciseRows}


\* the steps of a call that can be made to fail
StoreFaults == {"init_db", "select", "append", "save"}
ResolveProviderFaults == {"open", "load", "searchbox", "results", "nofirst"}
NearProviderFaults == {"open", "load", "searchbox", "results", "candidate"}
FaultQueries == {Q_AbCd, Q_abcde}

\* the concurrent callers of save_or_update_db and the arguments they pass: the name of
\* a place and a keyword for it, with the address and coordinates the place page shows
Callers == {"A", "B"}
SaveNames == {N1, N2}
SaveKeywords == {Q_TheAbCd, Q_abcde}
Idle == [pc |-> "idle", name |-> <<>>, keyword |-> <<>>, row |-> NoRow, before |-> <<>>,
         ret |-> None, exc |-> ""]
MaxRaceCalls == 1
MaxDriverCalls == 4
MaxLinkFaultCalls == 2
\* the failures of a provider stage that search_address catches, returning None
CaughtProviderFaults == {"searchbox", "results", "nofirst"}
DriverFaults == {"none", "open"}
QuitOutcomes == {"closed", "raises"}

(***************************************************************************)
(* State                                                                   *)
(***************************************************************************)
VARIABLES
    tables,    \* the tables that exist in hotels.db and pickup_location.db
    db,        \* db[kind]: the rows of the place table of hotels.db / pickup_location.db
    links,     \* the rows of hotel_pickup_links
    link_seq,  \* the last id AUTOINCREMENT gave a link row
    driver,    \* the module-level browser handle: 0 (None) or 1
    last,      \* the most recent call: its arguments and what it handed back
    created,   \* history: [kind, id, query] of each row a search_address call inserted
    inflight,  \* inflight[c]: the save_or_update_db call of caller c, statement by statement
    browsers,  \* history: the browsers launched so far and those of them not yet quit
    ncalls     \* the calls made so far

vars == <<tables, db, links, link_seq, driver, last, created, inflight, browsers, ncalls>>

Call(op, kind, query, query2, near, fault, ret, exc, stages, upsert) ==
    [op |-> op, db_kind |-> kind, query |-> query, query2 |-> query2, near |-> near,
     fault |-> fault, ret |-> ret, exc |-> exc, stages |-> stages, upsert |-> upsert]

Init ==
    /\ tables = {}
    /\ db = [k \in Collections |-> <<>>]
    /\ links = <<>>
    /\ link_seq = 0
    /\ driver = 0
    /\ last = Call("none", "", <<>>, <<>>, None, "none", None, "", <<>>, None)
    /\ created = {}
    /\ inflight = [c \in Callers |-> Idle]
    /\ browsers = [opened |-> 0, live |-> 0]
    /\ ncalls = 0

Resolve(Qs, Faults) ==
    /\ \E query \in Qs, kind \in Collections, f \in Faults :
         \E pg \in Shown(query) :
         \E o \in {search_address(query, db[kind], driver, [fault |-> f, page |-> pg])} :
           /\ db' = [db EXCEPT ![kind] = o.rows]
           /\ driver' = o.driver
           /\ browsers' = Launch(browsers, driver, o.driver)
           /\ last' = Call("search_address", kind, query, <<>>, None, f, o.ret, o.exc,
                           o.stages, o.upsert)
                      @@ [pages |-> IF "provider" \in Range(o.stages) THEN <<pg>> ELSE <<>>]
           /\ created' = IF Len(o.rows) > Len(db[kind])
                         THEN created \cup {[kind |-> kind, id |-> o.ret[1].id, query |-> query]}
                         ELSE created
           /\ tables' = IF o.init_db THEN init_db(tables, kind) ELSE tables
           /\ ncalls' = ncalls + 1
           /\ UNCHANGED <<inflight, links, link_seq>>

ResolveNear(Qs, Faults) ==
    /\ \E query \in Qs, kind \in NearKinds, pt \in NearPoints, f \in Faults :
         \E pl \in ShownLists(query) :
         \E o \in {search_address_near(query, Some(pt[1]), Some(pt[2]), db[kind], driver,
                                         [fault |-> f, pages |-> pl])} :
           /\ db' = [db EXCEPT ![kind] = o.rows]
           /\ driver' = o.driver
           /\ browsers' = Launch(browsers, driver, o.driver)
           /\ last' = Call("search_address_near", kind, query, <<>>, Some(pt), f, o.ret,
                           o.exc, o.stages, o.upsert)
                      @@ [pages |-> IF "provider" \in Range(o.stages) THEN pl ELSE <<>>]
           /\ tables' = IF o.init_db THEN init_db(tables, kind) ELSE tables
           /\ ncalls' = ncalls + 1
           /\ UNCHANGED <<inflight, links, link_seq, created>>

Link(HQs, PQs, Faults, SideFaults) ==
    /\ \E hq \in HQs, pq \in PQs, lab \in LinkLabels, create \in BOOLEAN, f \in Faults :
         \E hpg \in Shown(hq), ppg \in Shown(pq), hf \in SideFaults, pf \in SideFaults :
         \E o \in {link_hotel_to_pickup(hq, pq, lab[1], lab[2], create,
                                          db["hotels"], db["pickup"], links, link_seq, driver,
                                          [fault |-> f,
                                           h |-> [fault |-> hf, page |-> hpg],
                                           p |-> [fault |-> pf, page |-> ppg]])} :
           /\ db' = [db EXCEPT !["hotels"] = o.hotels, !["pickup"] = o.pickup]
           /\ links' = o.links
           /\ link_seq' = o.link_seq
           /\ driver' = o.driver
           /\ browsers' = Launch(browsers, driver, o.driver)
           /\ last' = Call("link_hotel_to_pickup", "", hq, pq, None, f, o.ret, o.exc,
                           o.stages, None)
                      @@ [priority |-> lab[1], notes |-> lab[2],
                          create_if_missing |-> create, h |-> o.h, p |-> o.p,
                          side_faults |-> <<hf, pf>>]
           /\ tables' = IF o.init_db
                        THEN init_db(init_db(tables, "hotels"), "pickup")
                        ELSE tables
           /\ ncalls' = ncalls + 1
           /\ UNCHANGED <<inflight, created>>

PickupsFor(Hs, Ns) ==
    /\ \E hotel \in Hs, top_n \in Ns :
         \E o \in {get_pickups_for_hotel(hotel, top_n, tables, db["hotels"], db["pickup"],
                                           links)} :
           /\ last' = Call("get_pickups_for_hotel", "hotels", hotel, top_n, None, "none",
                           o.ret, o.exc, <<>>, None)
           /\ ncalls' = ncalls + 1
           /\ UNCHANGED <<inflight, browsers, tables, db, links, link_seq, driver, created>>

HotelsFor(Ps) ==
    /\ \E pickup \in Ps :
         \E o \in {get_hotels_for_pickup(pickup, tables, db["hotels"], db["pickup"], links)} :
           /\ last' = Call("get_hotels_for_pickup", "pickup", pickup, <<>>, None, "none",
                           o.ret, o.exc, <<>>, None)
           /\ ncalls' = ncalls + 1
           /\ UNCHANGED <<inflight, browsers, tables, db, links, link_seq, driver, created>>

Unlink(Hs, Ps) ==
    /\ \E hotel \in Hs, pickup \in Ps :
         \E o \in {unlink_hotel_pickup(hotel, pickup, tables, db["hotels"], db["pickup"],
                                         links)} :
           /\ links' = o.links
           /\ last' = Call("unlink_hotel_pickup", "", hotel, pickup, None, "none",
                           o.ret, o.exc, <<>>, None)
           /\ ncalls' = ncalls + 1
           /\ UNCHANGED <<inflight, browsers, tables, db, link_seq, driver, created>>

Next ==
    \/ /\ ncalls < MaxCalls
       /\ Resolve(Queries, {"none"})
    \/ /\ ncalls < MaxCalls
       /\ ResolveNear(NearQueries, {"none"})
    \/ /\ ncalls < MaxCalls
       /\ Link(LinkHotelQueries, LinkPickupQueries, {"none"}, {"none"})

Spec == Init /\ [][Next]_vars

\* the same calls with a step of the store or of the provider failing
NextFault ==
    \/ /\ ncalls < MaxFaultCalls
       /\ Resolve(FaultQueries, {"none"} \cup StoreFaults \cup ResolveProviderFaults)
    \/ /\ ncalls < MaxFaultCalls
       /\ ResolveNear(FaultQueries, {"none"} \cup StoreFaults \cup NearProviderFaults)

SpecFault == Init /\ [][NextFault]_vars

\* the six public operations on the hotels and pickups of a few queries
NextLink ==
    \/ /\ ncalls < MaxLinkCalls
       /\ Resolve(LinkResolveQueries, {"none"})
    \/ /\ ncalls < MaxLinkCalls
       /\ ResolveNear(LinkResolveQueries, {"none"})
    \/ /\ ncalls < MaxLinkCalls
       /\ Link(LinkBothQueries, LinkBothQueries, {"none"}, {"none"})
    \/ /\ ncalls < MaxLinkCalls
       /\ PickupsFor(LinkArgs, TopNs)
    \/ /\ ncalls < MaxLinkCalls
       /\ HotelsFor(LinkArgs)
    \/ /\ ncalls < MaxLinkCalls
       /\ Unlink(LinkArgs, LinkArgs)

SpecLink == Init /\ [][NextLink]_vars

\* The precise stage on its own and inside search_address, applied to stores that hold
\* places with keywords at its thresholds
InitPrecise ==
    /\ tables = init_db({}, "hotels")
    /\ \E kws \in PreciseKeywordLists, names \in PreciseNamings :
         db = [k \in Collections |-> IF k = "hotels" THEN PreciseTable(kws, names) ELSE <<>>]
    /\ links = <<>>
    /\ link_seq = 0
    /\ driver = 0
    /\ last = Call("none", "", <<>>, <<>>, None, "none", None, "", <<>>, None)
    /\ created = {}
    /\ inflight = [c \in Callers |-> Idle]
    /\ browsers = [opened |-> 0, live |-> 0]
    /\ ncalls = 0

PreciseStage(Qs) ==
    /\ \E query \in Qs :
         \E o \in {find_best_in_db_precise(query, db["hotels"])} :
           /\ last' = Call("find_best_in_db_precise", "hotels", query, <<>>, None, "none",
                           o, "", <<"precise">>, None)
           /\ ncalls' = ncalls + 1
           /\ UNCHANGED <<inflight, browsers, tables, db, links, link_seq, driver, created>>

NextPrecise ==
    \/ /\ ncalls < MaxPreciseCalls
       /\ PreciseStage(PreciseQueries)
    \/ /\ ncalls < MaxPreciseCalls
       /\ Resolve(PreciseQueries, {"none"})

SpecPrecise == InitPrecise /\ [][NextPrecise]_vars

\* search_address and search_address_near with a provider that may show places without
\* coordinates, nothing at all, or several candidates
NextCoord ==
    \/ /\ ncalls < MaxCoordCalls
       /\ Resolve(CoordQueries, {"none"})
    \/ /\ ncalls < MaxCoordCalls
       /\ ResolveNear(CoordQueries, {"none"})

SpecCoord == Init /\ [][NextCoord]_vars

\* A caller runs the SELECT of save_or_update_db(db_kind="hotels", ...); on a database
\* without the table the statement raises and the call ends
SaveRead(c) ==
    /\ inflight[c].pc = "idle"
    /\ \E name \in SaveNames, kw \in SaveKeywords :
         inflight' = [inflight EXCEPT ![c] =
            IF _table_name("hotels") \notin tables
            THEN [Idle EXCEPT !.pc = "done", !.name = name, !.keyword = kw,
                              !.exc = OperationalError]
            ELSE With(RowIndex(db["hotels"], LAMBDA r : r.name = name), LAMBDA i :
                   [Idle EXCEPT !.pc = "read", !.name = name, !.keyword = kw,
                                !.row = save_or_update_db_read(db["hotels"], name, kw),
                                !.before = IF i = 0 THEN <<>>
                                           ELSE db["hotels"][i].keywords])]
    /\ UNCHANGED <<tables, db, links, link_seq, driver, browsers, last, created, ncalls>>

\* The caller runs its UPDATE or INSERT and commits
SaveWrite(c) ==
    /\ inflight[c].pc = "read"
    /\ \E ac \in {_extract_address_and_coords(PageN1)} :
       \E o \in {save_or_update_db_write(db["hotels"], inflight[c].row, inflight[c].name,
                                          inflight[c].keyword, ac[1], ac[2], ac[3],
                                          <<>>, <<>>)} :
         /\ db' = [db EXCEPT !["hotels"] = o.rows]
         /\ inflight' = [inflight EXCEPT ![c].pc = "done", ![c].ret = Some(o.ret)]
    /\ UNCHANGED <<tables, links, link_seq, driver, browsers, last, created, ncalls>>

\* two callers of save_or_update_db beside a search_address call, nothing serializing them
NextRace ==
    \/ /\ ncalls < MaxRaceCalls
       /\ Resolve(LinkResolveQueries, {"none"})
    \/ \E c \in Callers : SaveRead(c)
    \/ \E c \in Callers : SaveWrite(c)

SpecRace == Init /\ [][NextRace]_vars

\* link_hotel_to_pickup with the provider stage of either side failing or not
NextLinkFault ==
    \/ /\ ncalls < MaxLinkFaultCalls
       /\ Resolve(LinkResolveQueries, {"none"})
    \/ /\ ncalls < MaxLinkFaultCalls
       /\ Link(LinkBothQueries, LinkBothQueries, {"none"}, {"none"} \cup CaughtProviderFaults)

SpecLinkFault == Init /\ [][NextLinkFault]_vars

InitDriver(Faults) ==
    /\ \E f \in Faults :
         \E o \in {init_driver(driver, f)} :
           /\ driver' = o.driver
           /\ browsers' = IF o.launched
                          THEN [opened |-> browsers.opened + 1, live |-> browsers.live + 1]
                          ELSE browsers
           /\ last' = Call("init_driver", "", <<>>, <<>>, None, f, None, o.exc, <<>>, None)
           /\ ncalls' = ncalls + 1
           /\ UNCHANGED <<tables, db, links, link_seq, created, inflight>>

QuitDriver(Outcomes) ==
    /\ \E outcome \in Outcomes :
         \E o \in {quit_driver(driver, outcome)} :
           /\ driver' = o.driver
           /\ browsers' = IF o.quitted THEN [browsers EXCEPT !.live = @ - 1] ELSE browsers
           /\ last' = Call("quit_driver", "", <<>>, <<>>, None, outcome, None, o.exc, <<>>,
                           None)
           /\ ncalls' = ncalls + 1
           /\ UNCHANGED <<tables, db, links, link_seq, created, inflight>>

\* the browser opened and closed by hand between search_address and
\* search_address_near calls, the launch of a browser failing or not
NextDriver ==
    \/ /\ ncalls < MaxDriverCalls
       /\ InitDriver(DriverFaults)
    \/ /\ ncalls < MaxDriverCalls
       /\ QuitDriver(QuitOutcomes)
    \/ /\ ncalls < MaxDriverCalls
       /\ Resolve(LinkResolveQueries, DriverFaults)
    \/ /\ ncalls < MaxDriverCalls
       /\ ResolveNear(LinkResolveQueries, DriverFaults)

SpecDriver == Init /\ [][NextDriver]_vars

(***************************************************************************)
(* Properties                                                              *)
(***************************************************************************)
IsResolve(c) == c.op = "search_address"
IsNear(c) == c.op = "search_address_near"
IsLink(c) == c.op = "link_hotel_to_pickup"
IsPickupsFor(c) == c.op = "get_pickups_for_hotel"
IsHotelsFor(c) == c.op = "get_hotels_for_pickup"
IsUnlink(c) == c.op = "unlink_hotel_pickup"
SideStages(c, kind) == SelectSeq(c.stages, LAMBDA t : t[1] = kind)
LinksOfPair(lnks, hid, pid) ==
    {i \in 1..Len(lnks) : lnks[i].hotel_id = hid /\ lnks[i].pickup_id = pid}
Has(stages, st) == \E i \in 1..Len(stages) : stages[i] = st
Keywords(row) == Range(kw_list(row.keywords))
RowsNamed(rows, name) == {i \in 1..Len(rows) : rows[i].name = name}
RowsWithId(rows, id) == {i \in 1..Len(rows) : rows[i].id = id}
ScoreOf(query, row) == _best_kw_metrics(query, row.keywords)[1]

\* C1: each collection holds at most one record per distinct name
C1_OneRecordPerName ==
    \A k \in Collections : \A i, j \in 1..Len(db[k]) :
        db[k][i].name = db[k][j].name => i = j

\* a provider result was merged into a record that already held another keyword
C1_Witness ==
    /\ IsResolve(last) \/ IsNear(last)
    /\ last.upsert # None /\ last.ret # None
    /\ Len(db[last.db_kind]) >= 2
    /\ Len(last.ret[1].keywords) >= 2
    /\ last.ret[1].id < Len(db[last.db_kind])

\* C2: search_address consults exact, precise, provider in this order and invokes the
\* provider only when both local stages returned no record for the query
C2_ProviderOnlyOnMiss ==
    [][IsResolve(last') =>
         /\ last'.stages \in {<<>>, <<"exact">>, <<"exact", "precise">>,
                              <<"exact", "precise", "provider">>}
         /\ Has(last'.stages, "provider") =>
              /\ find_in_db_exact_keywords_only(last'.query, db[last'.db_kind]) = None
              /\ find_best_in_db_precise(last'.query, db[last'.db_kind]) = None
         /\ Has(last'.stages, "precise") =>
              find_in_db_exact_keywords_only(last'.query, db[last'.db_kind]) = None]_vars

\* the provider was reached after both local stages had scanned a table with records
C2_Witness ==
    /\ IsResolve(last)
    /\ last.stages = <<"exact", "precise", "provider">>
    /\ last.ret # None
    /\ Len(db[last.db_kind]) >= 2
    /\ last.ret[1].id = Len(db[last.db_kind])

\* C3 as claimed: from the empty store, search_address(q, c) twice with the provider
\* showing the same place returns the same id, leaves one record, with the one keyword
\* normalize(q)
C3_IdempotentMerge ==
    [][(/\ ncalls = 1 /\ IsResolve(last) /\ IsResolve(last')
        /\ last.query = last'.query /\ last.db_kind = last'.db_kind
        /\ last.ret # None
        /\ last'.upsert # None => last'.upsert = last.upsert)
       => /\ last'.ret # None
          /\ last'.ret[1].id = last.ret[1].id
          /\ Len(db'[last.db_kind]) = 1
          /\ db'[last.db_kind][1].keywords = <<Norm(last.query)>>]_vars

\* C4: a record holding normalize(query) as a keyword is returned by the exact stage alone
C4_ExactBeatsFuzzy ==
    [][(/\ IsResolve(last')
        /\ \E i \in 1..Len(db[last'.db_kind]) :
              Norm(last'.query) \in Keywords(db[last'.db_kind][i]))
       => /\ last'.ret # None
          /\ last'.exc = ""
          /\ Norm(last'.query) \in Keywords(last'.ret[1])
          /\ last'.stages = <<"exact">>]_vars

\* an exact hit on a table of two records for a query the scored stage rejects
C4_Witness ==
    /\ IsResolve(last)
    /\ last.stages = <<"exact">>
    /\ last.ret # None
    /\ Len(db[last.db_kind]) >= 2
    /\ find_best_in_db_precise(last.query, db[last.db_kind]) = None

\* no other row scores within 0.05 of the row with this id
NoRival(query, rows, id) ==
    \A i, r \in 1..Len(rows) :
        (rows[i].id = id /\ rows[r].id # id) =>
            float_geq(float_sub(ScoreOf(query, rows[i]), ScoreOf(query, rows[r])), TOP2_MARGIN_MIN)

\* C5: a re-phrasing with the token list of the query that created R, and no rival within
\* 0.05, returns R without the provider and leaves both phrasings in R's keywords
C5_Rephrasing ==
    [][IsResolve(last') =>
         \A c \in created :
            (/\ c.kind = last'.db_kind
             /\ token_set(c.query) # <<>>
             /\ token_set(c.query) = token_set(last'.query)
             /\ NoRival(last'.query, db[c.kind], c.id))
            => /\ last'.ret # None
               /\ last'.ret[1].id = c.id
               /\ ~Has(last'.stages, "provider")
               /\ \A i \in RowsWithId(db'[c.kind], c.id) :
                     {Norm(c.query), Norm(last'.query)} \subseteq Keywords(db'[c.kind][i])]_vars

\* the scored stage returned the record an earlier, differently phrased query created
C5_Witness ==
    /\ IsResolve(last)
    /\ last.stages = <<"exact", "precise">>
    /\ last.ret # None
    /\ Len(db[last.db_kind]) >= 2
    /\ \E c \in created :
          /\ c.kind = last.db_kind /\ c.id = last.ret[1].id
          /\ Norm(c.query) # Norm(last.query)
          /\ token_set(c.query) = token_set(last.query)

\* C6 as claimed: the record a resolution returns holds normalize(query) as a keyword
C6_QueryRemembered ==
    ((IsResolve(last) \/ IsNear(last)) /\ last.ret # None) =>
        \E i \in RowsWithId(db[last.db_kind], last.ret[1].id) :
            Norm(last.query) \in Keywords(db[last.db_kind][i])

\* C7 as claimed: save_or_update_db on an existing name keeps address, street and city
\* when the new address is empty and the coordinates when the new ones are absent, and
\* overwrites them otherwise
C7_KeepsPresentFields ==
    [][(last'.upsert # None /\ last'.ret # None) =>
         \A i \in RowsNamed(db[last'.db_kind], last'.upsert[1].name) :
            LET old == db[last'.db_kind][i]
                new == db'[last'.db_kind][i]
                a == last'.upsert[1]
            IN /\ a.address = <<>> =>
                    /\ new.address = old.address
                    /\ new.street = old.street
                    /\ new.city = old.city
               /\ a.address # <<>> => new.address = _clean_country_suffix(a.address)
               /\ a.lat = None => new.lat = old.lat
               /\ a.lng = None => new.lng = old.lng
               /\ a.lat # None => new.lat = a.lat
               /\ a.lng # None => new.lng = a.lng]_vars

\* C8 as claimed: a failing provider step never escapes search_address or
\* search_address_near: the call returns None and the store is unchanged
C8_ProviderFailureContained ==
    [][(/\ IsResolve(last') \/ IsNear(last')
        /\ Has(last'.stages, "provider")
        /\ last'.fault \in ResolveProviderFaults \cup NearProviderFaults
        /\ last'.fault = "open" => driver = 0)
       => /\ last'.exc = ""
          /\ last'.ret = None
          /\ db' = db]_vars

\* C9 as claimed: a store failure in any stage of search_address, the write-back of a
\* provider result included, reaches the caller as an exception
C9_StoreFailurePropagates ==
    (/\ IsResolve(last)
     /\ \/ last.fault \in {"init_db", "select"} /\ last.query # <<>>
        \/ last.fault = "append" /\ last.stages # <<>> /\ ~Has(last.stages, "provider")
        \/ last.fault = "save" /\ last.upsert # None)
    => last.exc = SqliteError

\* C10: when some row passes the relaxed bar, search_address_near returns without the
\* provider a row that passes it, no passing row being nearer, nor as near with a higher score
C10_NearestSelection ==
    [][IsNear(last') =>
         LET rows == db[last'.db_kind]
             q == last'.query
             lat == Some(last'.near[1][1])
             lng == Some(last'.near[1][2])
             pass == {i \in 1..Len(rows) : Admitted(_best_kw_metrics(q, rows[i].keywords))}
             dist(i) == _haversine_m(lat, lng, rows[i].lat, rows[i].lng)
         IN (strip(q) # <<>> /\ \E i \in pass : isfinite(dist(i)))
            => /\ last'.ret # None
               /\ ~Has(last'.stages, "provider")
               /\ \E b \in pass :
                     /\ rows[b] = last'.ret[1]
                     /\ \A o \in pass :
                           /\ dist(o) >= dist(b)
                           /\ dist(o) = dist(b) => float_geq(ScoreOf(q, rows[b]), ScoreOf(q, rows[o]))]_vars

\* the nearer of two passing rows was returned although the other scores higher
C10_Witness ==
    /\ IsNear(last)
    /\ last.stages = <<"local">>
    /\ last.ret # None
    /\ \E i \in 1..Len(db[last.db_kind]) :
          LET o == db[last.db_kind][i]
              lat == Some(last.near[1][1])
              lng == Some(last.near[1][2])
          IN /\ o.id # last.ret[1].id
             /\ Admitted(_best_kw_metrics(last.query, o.keywords))
             /\ float_gt(ScoreOf(last.query, o), ScoreOf(last.query, last.ret[1]))
             /\ _haversine_m(lat, lng, o.lat, o.lng)
                  > _haversine_m(lat, lng, last.ret[1].lat, last.ret[1].lng)

\* C11: search_address_near with a null, empty or whitespace-only query returns None at
\* once: no stage runs, no table is created, no row of either collection or of the link
\* table changes, and the browser session is neither opened nor driven.
\* (None and the empty text are the same value <<>> of the model.)
C11_BlankNearReturnsNone ==
    [][(IsNear(last') /\ strip(last'.query) = <<>>)
         => /\ last'.ret = None
            /\ last'.exc = ""
            /\ last'.stages = <<>>
            /\ last'.upsert = None
            /\ tables' = tables
            /\ db' = db
            /\ links' = links
            /\ driver' = driver]_vars

C11_Witness ==
    /\ IsNear(last)
    /\ last.query = Q_Blank
    /\ last.ret = None
    /\ tables = {}
    /\ driver = 0

\* C12: after any sequence of link and unlink calls the link table holds at most one row
\* per (hotel_id, pickup_id) pair, and a link call that succeeds leaves exactly one row
\* for its pair, carrying the priority and the notes of that call - so link(A, B, p1)
\* followed by link(A, B, p2) leaves one row with p2
C12_LinkIdempotent ==
    [][/\ \A i, k \in 1..Len(links') :
            (links'[i].hotel_id = links'[k].hotel_id
               /\ links'[i].pickup_id = links'[k].pickup_id) => i = k
       /\ (IsLink(last') /\ last'.ret # None) =>
            \E i \in 1..Len(links') :
              /\ LinksOfPair(links', last'.ret[1].hotel.id, last'.ret[1].pickup.id) = {i}
              /\ links'[i].id = last'.ret[1].link_id
              /\ links'[i].priority = last'.ret[1].priority
              /\ links'[i].notes = last'.ret[1].notes]_vars

\* the second of two link calls for one pair: both records existed (no provider stage
\* ran), so the first call, the only one before it, stored them and linked them
C12_Witness ==
    /\ IsLink(last)
    /\ ncalls = 2
    /\ last.ret # None
    /\ ~\E n \in 1..Len(last.stages) : last.stages[n][2] = "provider"
    /\ Len(db["hotels"]) = 1
    /\ Len(db["pickup"]) = 1
    /\ Len(links) = 1
    /\ link_seq = 1
    /\ links[1].priority = 2
    /\ links[1].notes = <<"n">>

\* C13: when the hotel side or the pickup side of link_hotel_to_pickup does not resolve,
\* the call returns None and the link table is as before: no row inserted, none updated
C13_NoPartialLink ==
    [][(IsLink(last') /\ last'.exc = "" /\ (last'.h = None \/ last'.p = None))
         => /\ last'.ret = None
            /\ links' = links
            /\ link_seq' = link_seq]_vars

\* the pickup resolved, the hotel did not, and the link table had a row to lose
C13_Witness ==
    /\ IsLink(last)
    /\ last.exc = ""
    /\ last.h = None
    /\ last.p # None
    /\ last.ret = None
    /\ Len(links) >= 1

\* C14: link_hotel_to_pickup with create_if_missing=False uses the local exact and
\* precise stages only: the browser is not touched, no place record is inserted or
\* changed, and a side that is not found locally makes the call return None without
\* raising; with create_if_missing=True a side goes on to search_address only after its
\* local stages missed
C14_CreateIfMissing ==
    [][IsLink(last') =>
         /\ ~last'.create_if_missing =>
              /\ driver' = driver
              /\ db' = db
              /\ last'.exc = ""
              /\ \A n \in 1..Len(last'.stages) : last'.stages[n][2] \in {"exact", "precise"}
              /\ last'.h = LocalStages(last'.query, db["hotels"])
              /\ last'.p = LocalStages(last'.query2, db["pickup"])
              /\ (last'.h = None \/ last'.p = None) => last'.ret = None
         /\ last'.create_if_missing =>
              /\ Len(SideStages(last', "hotels")) > 2
                   => LocalStages(last'.query, db["hotels"]) = None
              /\ Len(SideStages(last', "pickup")) > 2
                   => LocalStages(last'.query2, db["pickup"]) = None
              /\ \A n \in 1..Len(last'.stages) :
                   last'.stages[n][2] = "provider" =>
                     Len(SideStages(last', last'.stages[n][1])) > 2]_vars

\* without create_if_missing: the hotel is found locally, the pickup is missed in a table
\* that holds another place, and nothing is fetched or stored
C14_Witness ==
    /\ IsLink(last)
    /\ ~last.create_if_missing
    /\ last.h # None
    /\ last.p = None
    /\ last.ret = None
    /\ last.stages = <<(<<"hotels", "exact">>), <<"pickup", "exact">>,
                       <<"pickup", "precise">>>>
    /\ Len(db["pickup"]) >= 1

\* r lists, for the place own_id, the records at the other end of its links: each once,
\* with the priority and notes of its link, by ascending priority and, among equal
\* priorities, in the order of the rows of the link table (a row is appended when its
\* pair is first linked and stays in its place when the pair is linked again); a limit
\* keeps the first ones
OrderedByPriorityThenInsertion(r, lnks, own, other, own_id, other_rows, top_n) ==
    LET L == {i \in 1..Len(lnks) :
                /\ lnks[i][own] = own_id
                /\ \E k \in 1..Len(other_rows) : other_rows[k].id = lnks[i][other]}
        At(n) == CHOOSE i \in L : lnks[i][other] = r[n].obj.id
        Before(i, k) == \/ lnks[i].priority < lnks[k].priority
                        \/ lnks[i].priority = lnks[k].priority /\ i < k
        limit == IF top_n = None \/ top_n[1] = 0 THEN Cardinality(L) ELSE top_n[1]
    IN /\ \A n \in 1..Len(r) : \E i \in L : lnks[i][other] = r[n].obj.id
       /\ \A n \in 1..Len(r) :
            /\ r[n].priority = lnks[At(n)].priority
            /\ r[n].notes_link = lnks[At(n)].notes
            /\ \E k \in 1..Len(other_rows) : other_rows[k] = r[n].obj
       /\ \A n, m \in 1..Len(r) : n < m => Before(At(n), At(m))
       /\ Len(r) = IF limit < Cardinality(L) THEN limit ELSE Cardinality(L)
       /\ \A i \in L : (\A n \in 1..Len(r) : At(n) # i)
                          => \A n \in 1..Len(r) : Before(At(n), i)

\* C15: get_pickups_for_hotel and get_hotels_for_pickup return the linked records by
\* ascending priority and, among equal priorities, in the order the links were first
\* inserted; a pair linked again moves by its new priority and keeps its place among
\* equals
C15_OrderedByPriority ==
    [][/\ (IsPickupsFor(last') /\ last'.exc = ""
            /\ LookupSide(last'.query, "hotels", db["hotels"], tables).rec # None)
         => OrderedByPriorityThenInsertion(
              last'.ret, links, "hotel_id", "pickup_id",
              LookupSide(last'.query, "hotels", db["hotels"], tables).rec[1].id,
              db["pickup"], last'.query2)
       /\ (IsHotelsFor(last') /\ last'.exc = ""
            /\ LookupSide(last'.query, "pickup", db["pickup"], tables).rec # None)
         => OrderedByPriorityThenInsertion(
              last'.ret, links, "pickup_id", "hotel_id",
              LookupSide(last'.query, "pickup", db["pickup"], tables).rec[1].id,
              db["hotels"], None)]_vars

\* two pickups of one hotel are returned in the reverse of the order they were linked
\* in, the later link having the lower priority
C15_Witness ==
    /\ IsPickupsFor(last)
    /\ Len(last.ret) = 2
    /\ last.ret[1].priority < last.ret[2].priority
    /\ \E i, k \in 1..Len(links) :
         /\ k < i
         /\ links[i].pickup_id = last.ret[1].obj.id
         /\ links[k].pickup_id = last.ret[2].obj.id
         /\ links[i].hotel_id = links[k].hotel_id

\* the argument of a read stands for no record: the text misses both local stages, or no
\* record has the id
Unresolved(arg, rows) ==
    IF isinstance_int(arg) THEN RowsWithId(rows, arg.id) = {}
    ELSE LocalStages(arg.text, rows) = None

\* C16 as claimed: get_pickups_for_hotel, get_hotels_for_pickup and unlink_hotel_pickup
\* resolve their arguments read-only - the browser is not touched, no place record is
\* inserted, no keyword appended - and the two reads return the empty list, raising
\* nothing, when the text does not resolve locally or no record has the id
C16_ReadOnlyLookups ==
    [][/\ (IsPickupsFor(last') \/ IsHotelsFor(last') \/ IsUnlink(last'))
            => /\ driver' = driver
               /\ db' = db
               /\ tables' = tables
       /\ (IsPickupsFor(last') /\ Unresolved(last'.query, db["hotels"]))
            => /\ last'.exc = ""
               /\ last'.ret = <<>>
       /\ (IsHotelsFor(last') /\ Unresolved(last'.query, db["pickup"]))
            => /\ last'.exc = ""
               /\ last'.ret = <<>>]_vars

\* the id an argument stands for, when it stands for one
LookupId(arg, rows) ==
    IF isinstance_int(arg) THEN arg.id ELSE LocalStages(arg.text, rows)[1].id

\* C17 as claimed: unlink_hotel_pickup returns 0 or 1; it removes the link row of the
\* resolved pair and nothing else, place records included; when a side does not resolve
\* or the pair is not linked it returns 0 and the store is as before
C17_UnlinkRemovesThePair ==
    [][IsUnlink(last') =>
         /\ last'.exc = ""
         /\ last'.ret \in {0, 1}
         /\ db' = db
         /\ tables' = tables
         /\ IF /\ ~Unresolved(last'.query, db["hotels"])
               /\ ~Unresolved(last'.query2, db["pickup"])
               /\ LinksOfPair(links, LookupId(last'.query, db["hotels"]),
                              LookupId(last'.query2, db["pickup"])) # {}
            THEN /\ last'.ret = 1
                 /\ links' = SelectSeq(links, LAMBDA l :
                                ~(/\ l.hotel_id = LookupId(last'.query, db["hotels"])
                                  /\ l.pickup_id = LookupId(last'.query2, db["pickup"])))
            ELSE /\ last'.ret = 0
                 /\ links' = links]_vars

\* C18: place records are never deleted and keep their identity: over any sequence of
\* the six operations every id of a collection is still there after the next call, under
\* the same name, and a link row disappears only in a call of unlink_hotel_pickup
C18_RecordsStay ==
    [][/\ \A kind \in Collections : \A i \in 1..Len(db[kind]) :
            \E k \in 1..Len(db'[kind]) :
              /\ db'[kind][k].id = db[kind][i].id
              /\ db'[kind][k].name = db[kind][i].name
       /\ \A kind \in Collections : \A i, k \in 1..Len(db'[kind]) :
            db'[kind][i].id = db'[kind][k].id => i = k
       /\ (\E i \in 1..Len(links) : \A n \in 1..Len(links') : links'[n].id # links[i].id)
            => IsUnlink(last')]_vars

\* two records stored one after the other are both there, and the one link there was
\* has been removed by unlink_hotel_pickup
C18_Witness ==
    /\ IsUnlink(last)
    /\ last.ret = 1
    /\ links = <<>>
    /\ link_seq = 1
    /\ \E kind \in Collections :
         /\ Len(db[kind]) = 2
         /\ db[kind][1].id = 1
         /\ db[kind][2].id = 2

\* Exact rationals <<numerator, denominator>>, denominator positive: the numbers the
\* thresholds 0.80, 0.92 and 0.05 and the formula 0.6 * j + 0.4 * e denote
Frac(n, d) == <<n, d>>
FGeq(a, b) == a[1] * b[2] >= b[1] * a[2]
FGt(a, b) == a[1] * b[2] > b[1] * a[2]
FSub(a, b) == <<a[1] * b[2] - b[1] * a[2], a[2] * b[2]>>
ExactJaccard(a, b) ==
    IF Range(a) # {} /\ Range(b) # {}
    THEN Frac(Cardinality(Range(a) \cap Range(b)), Cardinality(Range(a) \cup Range(b)))
    ELSE Frac(0, 1)
ExactRatio(a, b) ==
    IF Len(a) + Len(b) = 0 THEN Frac(1, 1) ELSE Frac(2 * matches(a, b), Len(a) + Len(b))
ExactScore(j, e) == Frac(6 * j[1] * e[2] + 4 * e[1] * j[2], 10 * j[2] * e[2])
ExactTable ==
    [a \in Texts |-> [b \in Texts |->
        With(<<ExactJaccard(token_set(a), token_set(b)),
               ExactRatio(join(token_set(a)), join(token_set(b)))>>, LAMBDA je :
          [s |-> ExactScore(je[1], je[2]), j |-> je[1], e |-> je[2]])]]
\* the keyword of the row giving its maximum score, the first of them
RECURSIVE ExactBestFrom(_, _, _)
ExactBestFrom(query, kws, best) ==
    IF kws = <<>> THEN best
    ELSE ExactBestFrom(query, Tail(kws),
                       IF FGt(ExactTable[query][kws[1]].s, best.s)
                       THEN ExactTable[query][kws[1]] ELSE best)
ExactBest(query, row) ==
    ExactBestFrom(query, SelectSeq(row.keywords, LAMBDA k : strip(k) # <<>>),
                  [s |-> Frac(0, 1), j |-> Frac(0, 1), e |-> Frac(0, 1)])
\* the top-ranked row: the highest score, the first in the table among equals
ExactTop(query, rows) ==
    CHOOSE i \in 1..Len(rows) :
        \A k \in 1..Len(rows) :
            \/ FGt(ExactBest(query, rows[i]).s, ExactBest(query, rows[k]).s)
            \/ /\ ExactBest(query, rows[i]).s = ExactBest(query, rows[k]).s
               /\ i <= k
            \/ /\ FGeq(ExactBest(query, rows[i]).s, ExactBest(query, rows[k]).s)
               /\ i <= k
\* the score of the second-best row, 0 when the table has one row
ExactSecond(query, rows) ==
    IF Len(rows) = 1 THEN Frac(0, 1)
    ELSE With(ExactTop(query, rows), LAMBDA top :
           ExactBest(query, rows[CHOOSE i \in 1..Len(rows) \ {top} :
               \A k \in 1..Len(rows) \ {top} :
                   FGeq(ExactBest(query, rows[i]).s, ExactBest(query, rows[k]).s)]).s)
ExactAccepts(query, rows) ==
    With(ExactBest(query, rows[ExactTop(query, rows)]), LAMBDA top :
      /\ FGeq(top.j, Frac(80, 100))
      /\ FGeq(top.e, Frac(92, 100))
      /\ FGeq(FSub(top.s, ExactSecond(query, rows)), Frac(5, 100)))
IsPreciseStage(c) == c.op = "find_best_in_db_precise"

\* C19 as claimed: find_best_in_db_precise returns the top-ranked record if and only if
\* the jaccard of its best keyword is at least 0.80, the edit similarity at least 0.92 and
\* its score at least 0.05 above the second-best record's (0 for a lone record); it
\* returns no record otherwise
C19_AcceptIffThresholds ==
    [][(IsPreciseStage(last') /\ db["hotels"] # <<>>)
       => last'.ret = IF ExactAccepts(last'.query, db["hotels"])
                      THEN Some(db["hotels"][ExactTop(last'.query, db["hotels"])])
                      ELSE None]_vars

\* the two best-scoring rows of a table of two or more are less than 0.05 apart
MarginRejected(query, rows) ==
    /\ Len(rows) >= 2
    /\ ~FGeq(FSub(ExactBest(query, rows[ExactTop(query, rows)]).s, ExactSecond(query, rows)),
             Frac(5, 100))

\* C20: when the two best-scoring records are less than 0.05 apart, a tie included,
\* find_best_in_db_precise returns no record and changes no row; search_address, the
\* exact stage having missed, then consults the provider, and the store changes by the
\* provider's save_or_update_db alone, whose record it returns
C20_MarginRejectionIsMiss ==
    [][/\ (IsPreciseStage(last') /\ MarginRejected(last'.query, db["hotels"]))
          => /\ last'.ret = None
             /\ db' = db
       /\ (/\ IsResolve(last')
           /\ \A i \in 1..Len(db[last'.db_kind]) :
                 Norm(last'.query) \notin Keywords(db[last'.db_kind][i])
           /\ MarginRejected(last'.query, db[last'.db_kind]))
          => /\ last'.stages = <<"exact", "precise", "provider">>
             /\ last'.upsert # None
             /\ \E saved \in {save_or_update_db(db[last'.db_kind], last'.upsert[1].name,
                                                 last'.upsert[1].keyword,
                                                 last'.upsert[1].address,
                                                 last'.upsert[1].lat, last'.upsert[1].lng,
                                                 <<>>, last'.upsert[1].notes)} :
                   /\ db' = [db EXCEPT ![last'.db_kind] = saved.rows]
                   /\ last'.ret = Some(saved.ret)
             /\ \A i \in 1..Len(db[last'.db_kind]) :
                   db'[last'.db_kind][i].name # last'.upsert[1].name
                   => db'[last'.db_kind][i] = db[last'.db_kind][i]]_vars

\* search_address went to the provider and stored a new record although two records of
\* the table pass both thresholds for the query, with equal scores
C20_Witness ==
    /\ IsResolve(last)
    /\ last.stages = <<"exact", "precise", "provider">>
    /\ last.ret # None
    /\ last.ret[1].id = Len(db["hotels"])
    /\ \E i, k \in 1..Len(db["hotels"]) :
          /\ i < k /\ k < last.ret[1].id
          /\ \A r \in {i, k} :
                With(_best_kw_metrics(last.query, db["hotels"][r].keywords), LAMBDA m :
                  /\ float_geq(m[2], JACCARD_MIN)
                  /\ float_geq(m[3], EDIT_SIM_MIN))
          /\ ScoreOf(last.query, db["hotels"][i]) = ScoreOf(last.query, db["hotels"][k])

\* C21 as claimed: a record that search_address has just created from a provider result
\* without coordinates is not returned by the local stage of the search_address_near
\* call that follows in the same collection
C21_NoCoordsNeverLocal ==
    [][(/\ IsResolve(last) /\ IsNear(last')
        /\ last.db_kind = last'.db_kind
        /\ last.upsert # None /\ last.ret # None
        /\ last.upsert[1].lat = None /\ last.upsert[1].lng = None
        /\ [kind |-> last.db_kind, id |-> last.ret[1].id, query |-> last.query] \in created)
       => ~(/\ last'.stages = <<"local">>
            /\ last'.ret # None
            /\ last'.ret[1].id = last.ret[1].id)]_vars

\* the candidates a fallback of search_address_near scraped, and those with coordinates
Candidates(c) == _collect_search_results_topk(c.query, c.pages, TOPK)
WithCoords(cands) == {i \in 1..Len(cands) : cands[i].lat # None /\ cands[i].lng # None}
DistanceTo(c, cand) == _haversine_m(Some(c.near[1][1]), Some(c.near[1][2]), cand.lat, cand.lng)
IsFallback(c) == IsNear(c) /\ c.stages = <<"local", "provider">> /\ c.exc = ""

\* C22: when a candidate of the fallback has coordinates, search_address_near saves, by
\* save_or_update_db under the query as keyword and with notes naming the reference
\* point, a candidate at minimal distance among those with coordinates, and returns the
\* record saved
C22_NearestCandidateSaved ==
    [][(IsFallback(last') /\ WithCoords(Candidates(last')) # {})
       => /\ last'.upsert # None
          /\ \E i \in WithCoords(Candidates(last')) :
                With(Candidates(last')[i], LAMBDA chosen :
                  /\ \A k \in WithCoords(Candidates(last')) :
                        DistanceTo(last', chosen) <= DistanceTo(last', Candidates(last')[k])
                  /\ last'.upsert[1] =
                        UpsertArgs(chosen.name, last'.query, chosen.address, chosen.lat,
                                   chosen.lng,
                                   <<"nearest to", Some(last'.near[1][1]), Some(last'.near[1][2])>>))
          /\ \E saved \in {save_or_update_db(db[last'.db_kind], last'.upsert[1].name,
                                              last'.upsert[1].keyword, last'.upsert[1].address,
                                              last'.upsert[1].lat, last'.upsert[1].lng, <<>>,
                                              last'.upsert[1].notes)} :
                /\ db'[last'.db_kind] = saved.rows
                /\ last'.ret = Some(saved.ret)
                /\ last'.ret[1].notes = last'.upsert[1].notes]_vars

\* the fallback saved the third candidate of a list: the first has no coordinates and
\* the second is farther from the reference point
C22_Witness ==
    /\ IsFallback(last)
    /\ Len(Candidates(last)) = 3
    /\ WithCoords(Candidates(last)) = {2, 3}
    /\ DistanceTo(last, Candidates(last)[3]) < DistanceTo(last, Candidates(last)[2])
    /\ last.ret # None
    /\ last.ret[1].name = Candidates(last)[3].name
    /\ \E i \in 1..Len(db[last.db_kind]) : db[last.db_kind][i] = last.ret[1]

\* C23 as claimed: when the fallback scraped candidates and none has coordinates, the
\* record saved and returned carries the name and the address of the first candidate
C23_FirstCandidateWithoutCoords ==
    [][(/\ IsFallback(last')
        /\ Candidates(last') # <<>>
        /\ WithCoords(Candidates(last')) = {})
       => /\ last'.ret # None
          /\ last'.ret[1].name = Candidates(last')[1].name
          /\ last'.ret[1].address = _clean_country_suffix(Candidates(last')[1].address)
          /\ \E i \in 1..Len(db'[last'.db_kind]) : db'[last'.db_kind][i] = last'.ret[1]]_vars

\* the provider stage of search_address ran to its end on a page showing nothing
EmptyRecord(c) ==
    /\ IsResolve(c) /\ c.stages = <<"exact", "precise", "provider">> /\ c.exc = ""
    /\ c.fault = "none"
    /\ \A i \in 1..Len(c.pages) :
          c.pages[i].name = <<>> /\ c.pages[i].label = <<>> /\ c.pages[i].coords = None

\* C24 as claimed: when the provider shows an empty record to search_address, or an
\* empty candidate list to search_address_near, the call returns None and the store is
\* left as it was
C24_EmptyResultIsNoMatch ==
    [][(EmptyRecord(last') \/ (IsFallback(last') /\ Candidates(last') = <<>>))
       => /\ last'.ret = None
          /\ db' = db]_vars

\* the row of the hotels table with this id
RowOfId(rows, id) == rows[CHOOSE i \in 1..Len(rows) : rows[i].id = id]

\* C25: the UPDATE of save_or_update_db stores the keywords its SELECT read, merged with
\* the caller's own, whatever the record holds by then: a keyword another caller merged
\* in between the two statements is dropped, and the call completes
C25_ReadThenWrite ==
    [][\A c \in Callers :
          (inflight[c].pc = "read" /\ inflight'[c].pc = "done" /\ inflight[c].row.found)
          => /\ inflight'[c].ret # None
             /\ Keywords(RowOfId(db'["hotels"], inflight[c].row.rec_id))
                  = Range(kw_list(inflight[c].before)) \cup {Norm(inflight[c].keyword)}
             /\ \A k \in Keywords(RowOfId(db["hotels"], inflight[c].row.rec_id)) :
                   k \in Keywords(RowOfId(db'["hotels"], inflight[c].row.rec_id))
                   <=> k \in Range(kw_list(inflight[c].before)) \cup {Norm(inflight[c].keyword)}]_vars

\* both callers have merged a keyword of their own into the same existing record, both
\* calls have returned, and the record lacks the keyword of one of them
C25_Witness ==
    /\ \A c \in Callers : inflight[c].pc = "done" /\ inflight[c].ret # None
                          /\ inflight[c].row.found
    /\ inflight["A"].name = inflight["B"].name
    /\ inflight["A"].keyword # inflight["B"].keyword
    /\ inflight["A"].row.rec_id = inflight["B"].row.rec_id
    /\ \E c \in Callers :
          /\ Norm(inflight[c].keyword) \in Range(kw_list(inflight[c].ret[1].keywords))
          /\ Norm(inflight[c].keyword)
               \notin Keywords(RowOfId(db["hotels"], inflight[c].row.rec_id))

IsInitDriver(c) == c.op = "init_driver"
IsQuitDriver(c) == c.op = "quit_driver"
ProviderCall(c) == (IsResolve(c) \/ IsNear(c)) /\ Has(c.stages, "provider")

\* C26: over init_driver, quit_driver, search_address and search_address_near calls at
\* most one browser is live, and it is the one the handle holds; a browser is launched
\* only by init_driver or a provider stage and only when no handle is held; quit_driver
\* leaves no handle and raises nothing even when driver.quit() raises; a provider stage
\* that finds no handle launches a new browser unless the launch itself fails
C26_SingletonBrowser ==
    [][ncalls' = ncalls + 1 =>
         /\ browsers'.live <= 1
         /\ browsers'.live = (IF driver' # 0 THEN 1 ELSE 0)
         /\ browsers'.opened # browsers.opened
              => /\ driver = 0 /\ driver' # 0
                 /\ browsers'.opened = browsers.opened + 1
                 /\ IsInitDriver(last') \/ ProviderCall(last')
         /\ (IsInitDriver(last') /\ driver # 0) => (driver' = driver /\ last'.exc = "")
         /\ IsQuitDriver(last') => (driver' = 0 /\ last'.exc = "")
         /\ ((ProviderCall(last') \/ IsInitDriver(last')) /\ driver = 0 /\ last'.fault # "open")
              => (driver' # 0 /\ browsers'.opened = browsers.opened + 1)]_vars

\* search_address has reached the provider in a second browser, launched after
\* quit_driver dropped the first
C26_Witness ==
    /\ IsResolve(last)
    /\ Has(last.stages, "provider")
    /\ last.ret # None
    /\ driver # 0
    /\ browsers = [opened |-> 2, live |-> 1]

\* C27 as claimed: no two records of a collection hold the same keyword
C27_KeywordOwnedByOneRecord ==
    \A k \in Collections : \A i, j \in 1..Len(db[k]) :
        i # j => Keywords(db[k][i]) \cap Keywords(db[k][j]) = {}

\* C28 as claimed: the record search_address or search_address_near returns is the
\* record the store holds under that id when the call returns: same name, keywords,
\* address and coordinates
C28_ReturnedRecordIsStored ==
    [][((IsResolve(last') \/ IsNear(last')) /\ last'.ret # None)
       => \E i \in 1..Len(db'[last'.db_kind]) :
             With(db'[last'.db_kind][i], LAMBDA stored :
               /\ stored.id = last'.ret[1].id
               /\ stored.name = last'.ret[1].name
               /\ stored.keywords = last'.ret[1].keywords
               /\ stored.address = last'.ret[1].address
               /\ stored.lat = last'.ret[1].lat
               /\ stored.lng = last'.ret[1].lng)]_vars

\* C29 as claimed: every record of the store holds at least one non-empty keyword
C29_EveryRecordHasKeyword ==
    \A k \in Collections : \A i \in 1..Len(db[k]) :
        \E kw \in Keywords(db[k][i]) : kw # <<>>

\* C30 as claimed: a link_hotel_to_pickup call that returns None leaves both place
\* tables and the link table as they were
C30_FailedLinkChangesNothing ==
    [][(IsLink(last') /\ last'.ret = None /\ last'.exc = "")
       => /\ db' = db
          /\ links' = links]_vars
====
